---- MODULE Spec2Model ----
(***************************************************************************)
(* Video-To-DF: the frame transformation and batch-encoding pipeline.      *)
(*                                                                         *)
(*   sdf.rs        binary_sdf, chebyshev_sdf_above / _below,               *)
(*                 chebyshev_sdf_forward_pass                              *)
(*   monoframe.rs  MonoFrame::new / solid_color / add_border               *)
(*   functions.rs  write_json_frames_parallel, process_single_frame,       *)
(*                 write_project_n_from_config, test_project_n_from_config,*)
(*                 write_json_grid, write_tp_functions,                    *)
(*                 index_to_spiral_coords                                  *)
(*   output.rs     the earlier revision of the same output functions       *)
(*   main.rs       the one-file revision: the single-sided binary_sdf      *)
(*                                                                         *)
(* The specifications share the variables:                                 *)
(*   Spec         one call of write_json_frames_parallel, its per-frame    *)
(*                units interleaved by the workers of the thread pool;     *)
(*   SpecSdf      the pure distance-field functions applied to bounded     *)
(*                frames;                                                  *)
(*   SpecFn       one call of solid_color, add_border, binary_sdf or       *)
(*                index_to_spiral_coords on bounded arguments;             *)
(*   SpecProject  one project of a configuration run or tested on a frame  *)
(*                collection, step by step;                                *)
(*   SpecRun      write_projects_from_config: the projects of a            *)
(*                configuration run one after the other;                   *)
(*   SpecMain     the single-sided transform of main.rs applied to bounded *)
(*                frames.                                                  *)
(***************************************************************************)
EXTENDS Integers, Sequences, FiniteSets, TLC

(***************************************************************************)
(* Bounds of the model.                                                    *)
(***************************************************************************)
MaxW == 3
MaxH == 2
MaxStripW == 256
MaxFrames == 3
NumWorkers == 2
MaxBorder == 1
MaxSpiral == 120

(***************************************************************************)
(* State.                                                                  *)
(***************************************************************************)
VARIABLES
    call_frames,        \* write_json_frames_parallel: its frames argument
    call_frame_dim,     \* ... its frame_dim argument
    call_index_range,   \* ... its index_range argument, <<start, end>>
    call_border_width,  \* ... its border_width argument
    call_border_color,  \* ... its border_color argument
    pc,                 \* position of the call: create_dir, for_each, inspect, returned
    dir_exists,         \* output_dir exists
    files,              \* the files of output_dir: file name -> content
    errors_vec,         \* the vector of `errors: Mutex<Vec<ImplError>>`
    mutex,              \* the worker holding the lock of `errors`, 0 when free
    pending,            \* units of the parallel iterator not yet handed to a worker
    wpc,                \* per worker: idle, process, lock, push
    widx,               \* per worker: the index of its unit
    werr,               \* per worker: the Err its unit returned
    wvec,               \* per worker: the vector as Vec::push loaded it
    attempts,           \* per index: how often process_single_frame was started
    unit_res,           \* per index: none, Ok or Err, the result of its unit
    unit_err,           \* per index: the error its unit returned
    result,             \* the Result write_json_frames_parallel returned
    sdf_frame,          \* SpecSdf: the frame the function is applied to
    sdf_call,           \* SpecSdf: the function applied and what it returned
    fn_args,            \* SpecFn: the function to call and its arguments
    fn_call,            \* SpecFn: the function called and what it returned
    pj_revision,        \* SpecProject: the module run, "functions" or "output"
    pj_mode,            \* ... "run" (write_project_n_..) or "test" (test_project_n_..)
    pj_config,          \* ... the ProjectConfig
    pj_frames,          \* ... the frame collection
    pj_pc,              \* ... position in the project function
    pj_frame_dim,       \* ... its local frame_dim
    pj_index_range,     \* ... its local index_range, <<start, end>>
    pj_pending,         \* ... frame units of the batch not yet run
    pj_errors,          \* ... errors of the failed frame units of the batch
    pj_tp_i,            \* ... loop variable i of write_tp_functions
    pj_dirs,            \* ... output kinds whose directory has been created
    pj_dir_failed,      \* ... output kinds whose create_dir_all failed
    pj_files,           \* ... files written: <<kind, name>> -> content
    pj_result,          \* ... what the project function returned
    run_pc,             \* SpecRun: position in write_projects_from_config
    run_projects,       \* ... config.projects
    run_n,              \* ... the loop variable n
    run_root,           \* ... output_root_dir exists
    run_files,          \* ... per project, the files of its directories
    run_result          \* ... what write_projects_from_config returned

vars == <<call_frames, call_frame_dim, call_index_range, call_border_width,
          call_border_color, pc, dir_exists, files, errors_vec, mutex, pending, wpc,
          widx, werr, wvec, attempts, unit_res, unit_err, result, sdf_frame, sdf_call,
          fn_args, fn_call, pj_revision, pj_mode, pj_config, pj_frames, pj_pc,
          pj_frame_dim, pj_index_range, pj_pending, pj_errors, pj_tp_i, pj_dirs,
          pj_dir_failed, pj_files, pj_result, run_pc, run_projects, run_n, run_root,
          run_files, run_result>>

callArgs == <<call_frames, call_frame_dim, call_index_range, call_border_width,
              call_border_color>>

batchVars == <<call_frames, call_frame_dim, call_index_range, call_border_width,
               call_border_color, pc, dir_exists, files, errors_vec, mutex, pending,
               wpc, widx, werr, wvec, attempts, unit_res, unit_err, result>>

sdfVars == <<sdf_frame, sdf_call>>

fnVars == <<fn_args, fn_call>>

runVars == <<run_pc, run_projects, run_n, run_root, run_files, run_result>>

projectVars == <<pj_revision, pj_mode, pj_config, pj_frames, pj_pc, pj_frame_dim,
                 pj_index_range, pj_pending, pj_errors, pj_tp_i, pj_dirs, pj_dir_failed,
                 pj_files, pj_result, runVars>>

(***************************************************************************)
(* Integer helpers.                                                        *)
(***************************************************************************)
Min2(a, b) == IF a <= b THEN a ELSE b

Max2(a, b) == IF a >= b THEN a ELSE b

Abs(a) == IF a >= 0 THEN a ELSE 0 - a

\* Iterator::max over a non-empty vector of usize
SeqMax(s) ==
    LET vals == {s[i] : i \in 1..Len(s)}
    IN  CHOOSE m \in vals : \A v \in vals : v <= m

\* Iterator::collect: the vector of the values of s
Collect(s) == SubSeq(s, 1, Len(s))

\* Vec::reverse
Reverse(s) == Collect([i \in 1..Len(s) |-> s[Len(s) + 1 - i]])

(***************************************************************************)
(* IEEE-754 binary32 arithmetic, as far as binary_sdf uses it.  A finite   *)
(* non-negative value is m * 2^e with m = 0 or 2^23 <= m < 2^24; the only  *)
(* non-finite value binary_sdf can produce is the NaN of 0.0 / 0.0 (a      *)
(* distance never exceeds the maximum of its field, so x / 0.0 with x > 0  *)
(* does not occur).  Every operation rounds to nearest, ties to even.      *)
(***************************************************************************)
F32Nan == [nan |-> TRUE, m |-> 0, e |-> 0]

F32Val(m, e) == [nan |-> FALSE, m |-> m, e |-> e]

\* n / 2^sh rounded to the nearest integer, ties to even.
RoundNearestEven(n, sh) ==
    IF sh = 0 THEN n
    ELSE LET q == n \div (2 ^ sh)
             r == n % (2 ^ sh)
             half == 2 ^ (sh - 1)
         IN  IF r > half \/ (r = half /\ q % 2 = 1) THEN q + 1 ELSE q

\* the representation of m * 2^e (0 < m <= 2^24) with 2^23 <= m < 2^24
F32Normalize(m, e) ==
    IF m >= 2 ^ 24 THEN F32Val(m \div 2, e + 1)
    ELSE LET k == CHOOSE j \in 0..23 : m * (2 ^ j) >= 2 ^ 23
         IN  F32Val(m * (2 ^ k), e - k)

\* the least s >= 0 with a * 2^s >= b   (0 < a <= b < 2^24)
ShiftUp(a, b) == CHOOSE s \in 0..24 : a * (2 ^ s) >= b

\* n steps of binary long division of r by b: <<quotient bits, 2 * remainder>>
DivBits(r, b, n) ==
    LET st[k \in 0..n] ==
            IF k = 0 THEN <<0, r>>
            ELSE LET prev == st[k - 1]
                     bit == IF prev[2] >= b THEN 1 ELSE 0
                 IN  <<2 * prev[1] + bit, 2 * (prev[2] - bit * b)>>
    IN  st[n]

\* `a as f32 / b as f32` for integers 0 <= a <= b < 2^24
F32Div(a, b) ==
    IF b = 0 THEN F32Nan
    ELSE IF a = 0 THEN F32Val(0, 0)
    ELSE LET s == ShiftUp(a, b)
             qr == DivBits(a * (2 ^ s), b, 24)
             roundBit == qr[2] >= b
             sticky == (IF roundBit THEN qr[2] - b ELSE qr[2]) > 0
             up == roundBit /\ (sticky \/ qr[1] % 2 = 1)
         IN  F32Normalize(IF up THEN qr[1] + 1 ELSE qr[1], 0 - s - 23)

\* `1.0 - x` for 0 <= x <= 1
F32OneMinus(x) ==
    IF x.nan THEN F32Nan
    ELSE IF x.m = 0 THEN F32Val(2 ^ 23, 0 - 23)
    ELSE LET s == 0 - x.e - 23
         IN  IF s <= 0 THEN F32Val(0, 0)
             ELSE LET n == (2 ^ 24) - RoundNearestEven(x.m, s - 1)
                  IN  IF n = 0 THEN F32Val(0, 0) ELSE F32Normalize(n, 0 - 24)

\* `x * 127.0`
F32Mul127(x) ==
    IF x.nan THEN F32Nan
    ELSE IF x.m = 0 THEN F32Val(0, 0)
    ELSE LET p == 127 * x.m
             sh == IF p >= 2 ^ 30 THEN 7 ELSE 6
         IN  F32Normalize(RoundNearestEven(p, sh), x.e + sh)

\* `x.round().clamp(0.0, 127.0) as u8`: round half away from zero; clamp
\* keeps a NaN, and the cast `as u8` saturates and sends NaN to 0.
F32RoundClampU8(x) ==
    IF x.nan THEN 0
    ELSE IF x.m = 0 THEN 0
    ELSE LET k == 0 - x.e
             r == IF k <= 0 THEN 128
                  ELSE IF k >= 25 THEN 0
                  ELSE (x.m + 2 ^ (k - 1)) \div (2 ^ k)
         IN  Min2(Max2(r, 0), 127)

(***************************************************************************)
(* MonoFrame (monoframe.rs): data is row-major, one byte per pixel.  The   *)
(* 0-based index idx of the source is position idx + 1 of the sequence.    *)
(***************************************************************************)
MonoFrame_new(data, width, height) ==
    [data |-> data, width |-> width, height |-> height]

EmptyFrame == MonoFrame_new(<<>>, 0, 0)

(***************************************************************************)
(* sdf.rs                                                                  *)
(***************************************************************************)
Threshold == 127

\* the iteration of the loop without the top-right diagonal neighbour
ForwardStepNoDiagonal(df, width, height, idx) ==
    LET x == idx % width
        y == idx \div width
        d0 == df[idx + 1]
        d1 == IF x # 0 THEN Min2(d0, df[idx - 1 + 1] + 1) ELSE d0
        d3 == IF y # 0 THEN Min2(d1, df[idx - width + 1] + 1) ELSE d1
        d4 == IF (x # 0) /\ (y # 0)
              THEN Min2(d3, df[idx - width - 1 + 1] + 1) ELSE d3
    IN  [df EXCEPT ![idx + 1] = d4]

\* one iteration of the loop of chebyshev_sdf_forward_pass, at index idx
ForwardStep(df, width, height, idx) ==
    LET x == idx % width
        y == idx \div width
        d0 == df[idx + 1]
        d1 == IF x # 0 THEN Min2(d0, df[idx - 1 + 1] + 1) ELSE d0
        d2 == IF (x # width - 1) /\ (y # 0)
              THEN Min2(d1, df[idx - width + 1 + 1] + 1) ELSE d1
        d3 == IF y # 0 THEN Min2(d2, df[idx - width + 1] + 1) ELSE d2
        d4 == IF (x # 0) /\ (y # 0)
              THEN Min2(d3, df[idx - width - 1 + 1] + 1) ELSE d3
    IN  [df EXCEPT ![idx + 1] = d4]

RECURSIVE ForwardRange(_, _, _, _, _)
\* the iterations of the loop for the indices lo .. hi - 1, in increasing
\* order (the range is halved so that a long row needs no deep recursion)
ForwardRange(df, width, height, lo, hi) ==
    IF hi <= lo THEN df
    ELSE IF hi = lo + 1 THEN ForwardStep(df, width, height, lo)
    ELSE LET mid == (lo + hi) \div 2
             firstHalf == ForwardRange(df, width, height, lo, mid)
         IN  IF Len(firstHalf) < hi THEN firstHalf   \* never: the pass keeps the length
             ELSE ForwardRange(firstHalf, width, height, mid, hi)

\* for y in 0..height { for x in 0..width { ...; idx += 1 } }
chebyshev_sdf_forward_pass(distance_field, width, height) ==
    ForwardRange(distance_field, width, height, 0, width * height)

\* forward pass, reverse, forward pass, reverse
TwoPass(seeded, width, height) ==
    Reverse(chebyshev_sdf_forward_pass(
        Reverse(chebyshev_sdf_forward_pass(seeded, width, height)), width, height))

chebyshev_sdf_below(image, width, height, threshold) ==
    LET max_dist == width + height
        seeded == Collect([i \in 1..(width * height) |->
                     IF i <= Len(image) /\ image[i] <= threshold THEN 0 ELSE max_dist])
    IN  TwoPass(seeded, width, height)

chebyshev_sdf_above(image, width, height, threshold) ==
    LET max_dist == width + height
        seeded == Collect([i \in 1..(width * height) |->
                     IF i <= Len(image) /\ image[i] > threshold THEN 0 ELSE max_dist])
    IN  TwoPass(seeded, width, height)

\* norm = dist / above_max, not inverted
above_byte_not_inverted(dist, above_max) ==
    F32RoundClampU8(F32Mul127(F32Div(dist, above_max)))

\* (norm * 127.0).round().clamp(0.0, 127.0) as u8, norm = 1.0 - dist / above_max
above_byte(dist, above_max) ==
    F32RoundClampU8(F32Mul127(F32OneMinus(F32Div(dist, above_max))))

\* the byte without the 128 offset
below_byte_no_offset(dist, below_max) ==
    F32RoundClampU8(F32Mul127(F32Div(dist, below_max)))

\* 128 + (norm * 127.0).round().clamp(0.0, 127.0) as u8, norm = dist / below_max
below_byte(dist, below_max) ==
    128 + F32RoundClampU8(F32Mul127(F32Div(dist, below_max)))

\* match below { 128 => above, _ => below }
combine_always_below(below, above) == below

\* the marker arm on 129 instead of 128
combine_marker_129(below, above) == IF below = 129 THEN above ELSE below

combine(below, above) == IF below = 128 THEN above ELSE below

NoLocals ==
    [above_distances |-> <<>>, below_distances |-> <<>>, above_max |-> 0,
     below_max |-> 0, above_bytes |-> <<>>, below_bytes |-> <<>>]

\* The local variables of binary_sdf when it returns, its result (the frame
\* it returns), or the panic of `.max().expect("SDF should never have size
\* 0")` on an empty field.
binary_sdf_run(frame) ==
    LET above_distances ==
            chebyshev_sdf_above(frame.data, frame.width, frame.height, Threshold)
        below_distances ==
            chebyshev_sdf_below(frame.data, frame.width, frame.height, Threshold)
    IN  IF Len(above_distances) = 0 \/ Len(below_distances) = 0
        THEN [status |-> "panic", frame |-> EmptyFrame, locals |-> NoLocals]
        ELSE LET above_max == SeqMax(above_distances)
                 below_max == SeqMax(below_distances)
                 above_bytes == Collect([i \in 1..Len(above_distances) |->
                                           above_byte(above_distances[i], above_max)])
                 below_bytes == Collect([i \in 1..Len(below_distances) |->
                                           below_byte(below_distances[i], below_max)])
                 \* below_bytes.iter().zip(&above_bytes)
                 combined_bytes == Collect([i \in 1..Min2(Len(below_bytes), Len(above_bytes)) |->
                                              combine(below_bytes[i], above_bytes[i])])
             IN  [status |-> "ok",
                  frame |-> MonoFrame_new(combined_bytes, frame.width, frame.height),
                  locals |-> [above_distances |-> above_distances,
                              below_distances |-> below_distances,
                              above_max |-> above_max, below_max |-> below_max,
                              above_bytes |-> above_bytes, below_bytes |-> below_bytes]]

\* binary_sdf as its callers see it: the returned frame, or the panic
binary_sdf(frame) ==
    LET r == binary_sdf_run(frame) IN [status |-> r.status, frame |-> r.frame]

(***************************************************************************)
(* monoframe.rs                                                            *)
(***************************************************************************)
U16 == 65536

MonoFrame_solid_color_one_row(width, height, color) ==
    [data |-> Collect([i \in 1..width |-> color]),
     width |-> width, height |-> height]

MonoFrame_solid_color(width, height, color) ==
    [data |-> Collect([i \in 1..(width * height) |-> color]),
     width |-> width, height |-> height]

CopyRow_no_column_offset(acc, self, border_width, new_width, y) ==
    LET src_start == y * self.width
        src_end == src_start + self.width
        dst_start == (y + border_width) * new_width
        dst_end == dst_start + self.width
    IN  IF acc.status = "panic" THEN acc
        ELSE IF dst_end > Len(acc.data) \/ src_end > Len(self.data)
        THEN [status |-> "panic", data |-> acc.data]
        ELSE [status |-> "ok",
              data |-> Collect([i \in 1..Len(acc.data) |->
                                  IF i > dst_start /\ i <= dst_end
                                  THEN self.data[src_start + (i - dst_start)]
                                  ELSE acc.data[i]])]

\* one iteration of the row loop of add_border; "panic" when a slice of
\* copy_from_slice is out of range
CopyRow(acc, self, border_width, new_width, y) ==
    LET src_start == y * self.width
        src_end == src_start + self.width
        dst_start == ((y + border_width) * new_width) + border_width
        dst_end == dst_start + self.width
    IN  IF acc.status = "panic" THEN acc
        ELSE IF dst_end > Len(acc.data) \/ src_end > Len(self.data)
        THEN [status |-> "panic", data |-> acc.data]
        ELSE [status |-> "ok",
              data |-> Collect([i \in 1..Len(acc.data) |->
                                  IF i > dst_start /\ i <= dst_end
                                  THEN self.data[src_start + (i - dst_start)]
                                  ELSE acc.data[i]])]

\* for y in 0..self.height { ... }: rows[n] is the buffer after n rows
CopyRows(dst, self, border_width, new_width) ==
    LET rows[n \in 0..self.height] ==
            IF n = 0 THEN [status |-> "ok", data |-> dst]
            ELSE CopyRow(rows[n - 1], self, border_width, new_width, n - 1)
    IN  rows[self.height]

MonoFrame_add_border(self, border_width, border_color) ==
    LET new_width == self.width + 2 * border_width
        new_height == self.height + 2 * border_width
        with_border == MonoFrame_solid_color(new_width % U16, new_height % U16, border_color)
        copied == CopyRows(with_border.data, self, border_width, new_width)
    IN  [status |-> copied.status,
         frame |-> [with_border EXCEPT !.data = copied.data]]

(***************************************************************************)
(* functions.rs: write_json_frames_parallel and process_single_frame.      *)
(* A Vec<MonoFrame> is a sequence; the 0-based index i of the source is    *)
(* frames[i + 1].                                                          *)
(***************************************************************************)
Workers == 1..NumWorkers

\* what the environment does to one unit: compress_zlib, to_string_pretty
\* and fs::write each succeed or fail
IoOutcomes == {"ok", "compress_fails", "json_fails", "write_fails"}

NoError == [kind |-> "none", stage |-> "none", index |-> 0]

\* an ImplError; stage and index record where it was produced
ImplError(kind, stage, index) == [kind |-> kind, stage |-> stage, index |-> index]

\* compress_zlib and the base64 engine are black boxes; both are injective
compress_zlib(bytes) == <<"zlib", bytes>>

base64_encode(bytes) == <<"base64", bytes>>

\* format!("{}.json", index + 1)
frame_file_name_fixed(index) == 1

frame_file_name(index) == index + 1

FrameFile(index) == [dir |-> "frame_dir", stem |-> frame_file_name(index), ext |-> "json"]

frame_json_sizes_swapped(frame_dim, encoded) ==
    [type |-> "minecraft:flat_cache",
     argument |->
       [type |-> "minecraft:cache_2d",
        argument |->
          [type |-> "moredfs:single_channel_image_tessellation",
           x_size |-> frame_dim[2], z_size |-> frame_dim[1],
           deflated_frame_data |-> encoded]]]

\* json!({ ... "x_size": frame_dim.0, "z_size": frame_dim.1, "deflated_frame_data": ... })
frame_json(frame_dim, encoded) ==
    [type |-> "minecraft:flat_cache",
     argument |->
       [type |-> "minecraft:cache_2d",
        argument |->
          [type |-> "moredfs:single_channel_image_tessellation",
           x_size |-> frame_dim[1], z_size |-> frame_dim[2],
           deflated_frame_data |-> encoded]]]

\* binary_sdf(&frame.add_border(border_width, border_color)); a panic of
\* add_border is the panic of the whole expression
bordered_sdf(frame, border_width, border_color) ==
    LET bordered == MonoFrame_add_border(frame, border_width, border_color)
    IN  IF bordered.status = "panic"
        THEN [status |-> "panic", frame |-> EmptyFrame]
        ELSE binary_sdf(bordered.frame)

\* the k-th frame of the decoded video: every frame has the video's size
VideoFrame(k) == MonoFrame_new(<<(k * 85) % 256, 255 - ((k * 85) % 256)>>, 2, 1)

BorderColors == {255}

BatchArgs ==
    {<<VideoFrame(k), b, c>> : k \in 1..MaxFrames, b \in 0..MaxBorder, c \in BorderColors}

\* bordered_sdf is a pure function: its graph on the arguments the batch
\* uses is computed once
BorderedSdfTable == {<<a, bordered_sdf(a[1], a[2], a[3])>> : a \in BatchArgs}

\* the unit with the payload of the frame without its border
process_single_frame_no_border(frame, frame_dim, index, border_width, border_color, io) ==
    LET grad == bordered_sdf(frame, 0, border_color)
    IN  IF grad.status = "panic"
        THEN [status |-> "panic", err |-> NoError, written |-> <<>>]
        ELSE IF io # "ok"
        THEN [status |-> "Err", err |-> ImplError("FileWrite", "fs::write", index),
              written |-> <<>>]
        ELSE [status |-> "Ok", err |-> NoError,
              written |-> <<frame_json(frame_dim,
                                       base64_encode(compress_zlib(grad.frame.data)))>>]

\* The result of process_single_frame under the environment's outcome io:
\* Ok with the record it wrote, or the Err it returns (nothing written).
process_single_frame(frame, frame_dim, index, border_width, border_color, io) ==
    LET a == <<frame, border_width, border_color>>
        grad == IF a \in BatchArgs
                THEN (CHOOSE p \in BorderedSdfTable : p[1] = a)[2]
                ELSE bordered_sdf(frame, border_width, border_color)
    IN  IF grad.status = "panic"
        THEN [status |-> "panic", err |-> NoError, written |-> <<>>]
        ELSE IF io = "compress_fails"
        THEN [status |-> "Err", err |-> ImplError("FileWrite", "compress_zlib", index),
              written |-> <<>>]
        ELSE IF io = "json_fails"
        THEN [status |-> "Err", err |-> ImplError("JsonPrettifier", "to_string_pretty", index),
              written |-> <<>>]
        ELSE IF io = "write_fails"
        THEN [status |-> "Err", err |-> ImplError("FileWrite", "fs::write", index),
              written |-> <<>>]
        ELSE [status |-> "Ok", err |-> NoError,
              written |-> <<frame_json(frame_dim,
                                       base64_encode(compress_zlib(grad.frame.data)))>>]

\* (index_range.0..index_range.1).into_par_iter().zip(frames.par_iter().skip(index_range.0)):
\* the indices of the range that still have a frame
zip_units_skip_first(index_range, frames) ==
    {i \in (index_range[1] + 1)..(index_range[2] - 1) : i < Len(frames)}

zip_units(index_range, frames) ==
    {i \in index_range[1]..(index_range[2] - 1) : i < Len(frames)}

\* Mutex::lock blocks until no other thread holds the lock
mutex_free_always(lock) == TRUE

mutex_free(lock) == lock = 0

\* errors.into_inner(); Err(first error) if !errors.is_empty(), else Ok(())
batch_result_last(errors) ==
    IF errors # <<>> THEN [status |-> "Err", err |-> errors[Len(errors)]]
    ELSE [status |-> "Ok", err |-> NoError]

batch_result(errors) ==
    IF errors # <<>> THEN [status |-> "Err", err |-> errors[1]]
    ELSE [status |-> "Ok", err |-> NoError]

Indices == 0..MaxFrames

NoFiles == [n \in {} |-> 0]

NoResult == [status |-> "none", err |-> NoError]

NoCall ==
    [fn |-> "none", status |-> "none", field |-> <<>>, out |-> EmptyFrame,
     locals |-> NoLocals]

RECURSIVE write_json_frames_loop(_, _, _, _, _, _, _)
\* output.rs, the loop of write_json_frames from `index` on, when compress_zlib,
\* to_string_pretty and fs::write succeed: `written` are the files of output_dir;
\* (index_range.0..index_range.1).zip(frames.iter().skip(index_range.0)) ends
\* with the range or with the frames
write_json_frames_loop(written, index, frames, frame_dim, index_range, border_width, border_color) ==
    IF index >= index_range[2] \/ index >= Len(frames)
    THEN [status |-> "Ok", files |-> written]
    ELSE LET a == <<frames[index + 1], border_width, border_color>>
             grad_frame == IF a \in BatchArgs
                           THEN (CHOOSE p \in BorderedSdfTable : p[1] = a)[2]
                           ELSE bordered_sdf(frames[index + 1], border_width, border_color)
         IN  IF grad_frame.status = "panic"
             THEN [status |-> "panic", files |-> written]
             ELSE write_json_frames_loop(
                      [n \in DOMAIN written \cup {FrameFile(index)} |->
                          IF n = FrameFile(index)
                          THEN frame_json(frame_dim,
                                          base64_encode(compress_zlib(grad_frame.frame.data)))
                          ELSE written[n]],
                      index + 1, frames, frame_dim, index_range, border_width, border_color)

\* output.rs write_json_frames after create_dir_all, every call succeeding
write_json_frames(frames, frame_dim, index_range, border_width, border_color) ==
    write_json_frames_loop(NoFiles, index_range[1], frames, frame_dim, index_range,
                           border_width, border_color)

(***************************************************************************)
(* The variables of a specification that is not running keep these values. *)
(***************************************************************************)
NoFnArgs == [fn |-> "none"]

NoFnCall == [fn |-> "none", status |-> "none"]

FnIdle == fn_args = NoFnArgs /\ fn_call = NoFnCall

RunIdle ==
    /\ run_pc = "idle"
    /\ run_projects = <<>>
    /\ run_n = 0
    /\ run_root = FALSE
    /\ run_files = <<>>
    /\ run_result = NoResult

ProjectIdle ==
    /\ RunIdle
    /\ pj_revision = "none"
    /\ pj_mode = "none"
    /\ pj_config = [make_frames |-> FALSE]
    /\ pj_frames = <<>>
    /\ pj_pc = "idle"
    /\ pj_frame_dim = <<0, 0>>
    /\ pj_index_range = <<0, 0>>
    /\ pj_pending = {}
    /\ pj_errors = <<>>
    /\ pj_tp_i = 0
    /\ pj_dirs = {}
    /\ pj_dir_failed = {}
    /\ pj_files = NoFiles
    /\ pj_result = NoResult

BatchIdle ==
    /\ call_frames = <<>>
    /\ call_frame_dim = <<0, 0>>
    /\ call_index_range = <<0, 0>>
    /\ call_border_width = 0
    /\ call_border_color = 0
    /\ pc = "idle"
    /\ dir_exists = FALSE
    /\ files = NoFiles
    /\ errors_vec = <<>>
    /\ mutex = 0
    /\ pending = {}
    /\ wpc = [w \in Workers |-> "idle"]
    /\ widx = [w \in Workers |-> 0]
    /\ werr = [w \in Workers |-> NoError]
    /\ wvec = [w \in Workers |-> <<>>]
    /\ attempts = [i \in Indices |-> 0]
    /\ unit_res = [i \in Indices |-> "none"]
    /\ unit_err = [i \in Indices |-> NoError]
    /\ result = NoResult

SdfIdle == sdf_frame = EmptyFrame /\ sdf_call = NoCall

(***************************************************************************)
(* Spec: one call of write_json_frames_parallel.  The arguments are those      *)
(* write_project_n_from_config (functions.rs 76-121) passes: call_frame_dim is  *)
(* the bordered size of call_frames[0], and the range passed its check          *)
(* min(start, end) <= call_frames.len().                                        *)
(***************************************************************************)
Init ==
    /\ call_frames \in {[k \in 1..n |-> VideoFrame(k)] : n \in 1..MaxFrames}
    /\ call_border_width \in 0..MaxBorder
    /\ call_border_color \in BorderColors
    /\ call_frame_dim = <<call_frames[1].width + call_border_width * 2,
                          call_frames[1].height + call_border_width * 2>>
    /\ call_index_range \in {r \in Indices \X Indices : Min2(r[1], r[2]) <= Len(call_frames)}
    /\ pc = "create_dir"
    /\ dir_exists = FALSE
    /\ files = NoFiles
    /\ errors_vec = <<>>
    /\ mutex = 0
    /\ pending = {}
    /\ wpc = [w \in Workers |-> "idle"]
    /\ widx = [w \in Workers |-> 0]
    /\ werr = [w \in Workers |-> NoError]
    /\ wvec = [w \in Workers |-> <<>>]
    /\ attempts = [i \in Indices |-> 0]
    /\ unit_res = [i \in Indices |-> "none"]
    /\ unit_err = [i \in Indices |-> NoError]
    /\ result = NoResult
    /\ sdf_frame = EmptyFrame
    /\ sdf_call = NoCall
    /\ FnIdle
    /\ ProjectIdle

\* fs::create_dir_all(&output_dir).map_err(CreateDirectory)?, then the
\* parallel iterator is built over the zipped range
CreateDir ==
    /\ pc = "create_dir"
    /\ \E ok \in BOOLEAN :
         IF ok
         THEN /\ dir_exists' = TRUE
              /\ pending' = zip_units(call_index_range, call_frames)
              /\ pc' = "for_each"
              /\ UNCHANGED result
         ELSE /\ result' = [status |-> "Err",
                            err |-> ImplError("CreateDirectory", "create_dir_all", 0)]
              /\ pc' = "returned"
              /\ UNCHANGED <<dir_exists, pending>>
    /\ UNCHANGED callArgs
    /\ UNCHANGED <<files, errors_vec, mutex, wpc, widx, werr, wvec, attempts, unit_res, unit_err>>
    /\ UNCHANGED <<sdfVars, fnVars, projectVars>>

\* a worker of the pool takes a unit (index, frame) of the iterator
TakeUnit(w) ==
    /\ pc = "for_each"
    /\ wpc[w] = "idle"
    /\ \E i \in pending :
         /\ pending' = pending \ {i}
         /\ widx' = [widx EXCEPT ![w] = i]
         /\ attempts' = [attempts EXCEPT ![i] = @ + 1]
    /\ wpc' = [wpc EXCEPT ![w] = "process"]
    /\ UNCHANGED callArgs
    /\ UNCHANGED <<pc, dir_exists, files, errors_vec, mutex, werr, wvec, unit_res, unit_err, result>>
    /\ UNCHANGED <<sdfVars, fnVars, projectVars>>

\* the closure of for_each: process_single_frame runs to completion; Ok(())
\* ends the unit, Err(e) goes on to errors.lock().unwrap().push(e)
ProcessUnit(w) ==
    /\ pc = "for_each"
    /\ wpc[w] = "process"
    /\ \E io \in IoOutcomes :
       \E r \in {process_single_frame(call_frames[widx[w] + 1], call_frame_dim, widx[w],
                                     call_border_width, call_border_color, io)} :
         LET i == widx[w]
         IN  /\ r.status # "panic"
             /\ unit_res' = [unit_res EXCEPT ![i] = r.status]
             /\ unit_err' = [unit_err EXCEPT ![i] = r.err]
             /\ IF r.status = "Ok"
                THEN /\ files' = [n \in DOMAIN files \cup {FrameFile(i)} |->
                                    IF n = FrameFile(i) THEN r.written[1] ELSE files[n]]
                     /\ wpc' = [wpc EXCEPT ![w] = "idle"]
                     /\ UNCHANGED werr
                ELSE /\ werr' = [werr EXCEPT ![w] = r.err]
                     /\ wpc' = [wpc EXCEPT ![w] = "lock"]
                     /\ UNCHANGED files
    /\ UNCHANGED callArgs
    /\ UNCHANGED <<pc, dir_exists, errors_vec, mutex, pending, widx, wvec, attempts, result>>
    /\ UNCHANGED <<sdfVars, fnVars, projectVars>>

\* errors.lock().unwrap(): the worker gets the guard; Vec::push loads the vector
LockErrors(w) ==
    /\ pc = "for_each"
    /\ wpc[w] = "lock"
    /\ mutex_free(mutex)
    /\ mutex' = w
    /\ wvec' = [wvec EXCEPT ![w] = errors_vec]
    /\ wpc' = [wpc EXCEPT ![w] = "push"]
    /\ UNCHANGED callArgs
    /\ UNCHANGED <<pc, dir_exists, files, errors_vec, pending, widx, werr, attempts, unit_res,
                   unit_err, result>>
    /\ UNCHANGED <<sdfVars, fnVars, projectVars>>

\* .push(e) stores the vector with e appended; the guard is dropped at the
\* end of the statement and the unit is finished
PushError(w) ==
    /\ pc = "for_each"
    /\ wpc[w] = "push"
    /\ errors_vec' = Append(wvec[w], werr[w])
    /\ mutex' = 0
    /\ wpc' = [wpc EXCEPT ![w] = "idle"]
    /\ werr' = [werr EXCEPT ![w] = NoError]
    /\ wvec' = [wvec EXCEPT ![w] = <<>>]
    /\ UNCHANGED callArgs
    /\ UNCHANGED <<pc, dir_exists, files, pending, widx, attempts, unit_res, unit_err, result>>
    /\ UNCHANGED <<sdfVars, fnVars, projectVars>>

\* for_each returns when every unit of the iterator has been run
ForEachDone ==
    /\ pc = "for_each"
    /\ pending = {}
    /\ \A w \in Workers : wpc[w] = "idle"
    /\ pc' = "inspect"
    /\ UNCHANGED callArgs
    /\ UNCHANGED <<dir_exists, files, errors_vec, mutex, pending, wpc, widx, werr, wvec,
                   attempts, unit_res, unit_err, result>>
    /\ UNCHANGED <<sdfVars, fnVars, projectVars>>

\* let errors = errors.into_inner().unwrap(); first error or Ok(())
InspectErrors ==
    /\ pc = "inspect"
    /\ result' = batch_result(errors_vec)
    /\ pc' = "returned"
    /\ UNCHANGED callArgs
    /\ UNCHANGED <<dir_exists, files, errors_vec, mutex, pending, wpc, widx, werr, wvec,
                   attempts, unit_res, unit_err>>
    /\ UNCHANGED <<sdfVars, fnVars, projectVars>>

Next ==
    \/ CreateDir
    \/ \E w \in Workers : TakeUnit(w)
    \/ \E w \in Workers : ProcessUnit(w)
    \/ \E w \in Workers : LockErrors(w)
    \/ \E w \in Workers : PushError(w)
    \/ ForEachDone
    \/ InspectErrors

Spec == Init /\ [][Next]_vars

(***************************************************************************)
(* SpecSdf: the distance-field functions of sdf.rs applied to one frame.   *)
(* The frames are every frame of at most MaxW x MaxH pixels (zero-area     *)
(* frames included) whose pixels take one value on each side of the        *)
(* threshold, and the one-row strips of MaxStripW - 1 and MaxStripW pixels *)
(* that start with one or two pixels of one side and go on with the other  *)
(* side, so that distances of 254 and more occur.                          *)
(***************************************************************************)
LowValues == {0, 127}

HighValues == {128, 255}

SmallFrames ==
    {MonoFrame_new(Collect([i \in 1..(w * h) |-> IF mask[i] THEN hi ELSE lo]), w, h) :
        <<w, h, mask, lo, hi>> \in
            UNION {{<<w0, h0, m0, l0, h1>> :
                        m0 \in [1..(w0 * h0) -> BOOLEAN], l0 \in LowValues, h1 \in HighValues} :
                   <<w0, h0>> \in (0..MaxW) \X (0..MaxH)}}

StripFrames ==
    {MonoFrame_new(Collect([i \in 1..w |-> IF (i <= k) = lowFirst THEN 0 ELSE 255]), w, 1) :
        w \in (MaxStripW - 1)..MaxStripW, k \in 1..2, lowFirst \in BOOLEAN}

SdfFrames == SmallFrames \cup StripFrames

InitSdf ==
    /\ sdf_frame \in SdfFrames
    /\ sdf_call = NoCall
    /\ call_frames = <<>>
    /\ call_frame_dim = <<0, 0>>
    /\ call_index_range = <<0, 0>>
    /\ call_border_width = 0
    /\ call_border_color = 0
    /\ pc = "idle"
    /\ dir_exists = FALSE
    /\ files = NoFiles
    /\ errors_vec = <<>>
    /\ mutex = 0
    /\ pending = {}
    /\ wpc = [w \in Workers |-> "idle"]
    /\ widx = [w \in Workers |-> 0]
    /\ werr = [w \in Workers |-> NoError]
    /\ wvec = [w \in Workers |-> <<>>]
    /\ attempts = [i \in Indices |-> 0]
    /\ unit_res = [i \in Indices |-> "none"]
    /\ unit_err = [i \in Indices |-> NoError]
    /\ result = NoResult
    /\ FnIdle
    /\ ProjectIdle

Call_chebyshev_sdf_above ==
    /\ sdf_call.fn = "none"
    /\ sdf_call' = [fn |-> "chebyshev_sdf_above", status |-> "ok",
                    field |-> chebyshev_sdf_above(sdf_frame.data, sdf_frame.width,
                                                  sdf_frame.height, Threshold),
                    out |-> EmptyFrame, locals |-> NoLocals]
    /\ UNCHANGED sdf_frame
    /\ UNCHANGED <<batchVars, fnVars, projectVars>>

Call_chebyshev_sdf_below ==
    /\ sdf_call.fn = "none"
    /\ sdf_call' = [fn |-> "chebyshev_sdf_below", status |-> "ok",
                    field |-> chebyshev_sdf_below(sdf_frame.data, sdf_frame.width,
                                                  sdf_frame.height, Threshold),
                    out |-> EmptyFrame, locals |-> NoLocals]
    /\ UNCHANGED sdf_frame
    /\ UNCHANGED <<batchVars, fnVars, projectVars>>

Call_binary_sdf ==
    /\ sdf_call.fn = "none"
    /\ LET r == binary_sdf_run(sdf_frame)
       IN  sdf_call' = [fn |-> "binary_sdf", status |-> r.status, field |-> <<>>,
                        out |-> r.frame, locals |-> r.locals]
    /\ UNCHANGED sdf_frame
    /\ UNCHANGED <<batchVars, fnVars, projectVars>>

NextSdf ==
    \/ Call_chebyshev_sdf_above
    \/ Call_chebyshev_sdf_below
    \/ Call_binary_sdf

SpecSdf == InitSdf /\ [][NextSdf]_vars

(***************************************************************************)
(* functions.rs: index_to_spiral_coords.  The f64 expression               *)
(* ((n as f64).sqrt() - 1.0) / 2.0).floor() is exact for the indices a     *)
(* usize frame count below 2^52 can take: sqrt is correctly rounded and    *)
(* stays between the two integers around an irrational root, x - 1.0 and   *)
(* x / 2.0 are exact, so the floor is that of (floor(sqrt n) - 1) / 2.     *)
(***************************************************************************)
sqrt_floor(n) == CHOOSE k \in 0..n : k * k <= n /\ n < (k + 1) * (k + 1)

index_to_spiral_coords_open_ring(n) ==
    IF n = 0 THEN <<0, 0>>
    ELSE LET layer == ((sqrt_floor(n) - 1) \div 2) + 1
             layer_start == (2 * layer - 1) * (2 * layer - 1)
             pos_in_layer == n - layer_start
             side_length == 2 * layer
         IN  IF pos_in_layer < side_length
             THEN <<layer, -layer + 1 + pos_in_layer>>
             ELSE IF pos_in_layer < 2 * side_length
             THEN <<layer - 1 - (pos_in_layer - side_length), layer>>
             ELSE IF pos_in_layer < 3 * side_length
             THEN <<-layer, layer - 1 - (pos_in_layer - 2 * side_length)>>
             ELSE <<-layer + (pos_in_layer - 3 * side_length), -layer>>

index_to_spiral_coords_ring_from_corner(n) ==
    IF n = 0 THEN <<0, 0>>
    ELSE LET layer == ((sqrt_floor(n) - 1) \div 2) + 1
             layer_start == (2 * layer - 1) * (2 * layer - 1)
             pos_in_layer == n - layer_start
             side_length == 2 * layer
         IN  IF pos_in_layer < side_length
             THEN <<layer, -layer + pos_in_layer>>
             ELSE IF pos_in_layer < 2 * side_length
             THEN <<layer - 1 - (pos_in_layer - side_length), layer>>
             ELSE IF pos_in_layer < 3 * side_length
             THEN <<-layer, layer - 1 - (pos_in_layer - 2 * side_length)>>
             ELSE <<-layer + 1 + (pos_in_layer - 3 * side_length), -layer>>

index_to_spiral_coords(n) ==
    IF n = 0 THEN <<0, 0>>
    ELSE LET layer == ((sqrt_floor(n) - 1) \div 2) + 1
             layer_start == (2 * layer - 1) * (2 * layer - 1)
             pos_in_layer == n - layer_start
             side_length == 2 * layer
         IN  IF pos_in_layer < side_length
             THEN <<layer, -layer + 1 + pos_in_layer>>
             ELSE IF pos_in_layer < 2 * side_length
             THEN <<layer - 1 - (pos_in_layer - side_length), layer>>
             ELSE IF pos_in_layer < 3 * side_length
             THEN <<-layer, layer - 1 - (pos_in_layer - 2 * side_length)>>
             ELSE <<-layer + 1 + (pos_in_layer - 3 * side_length), -layer>>

(***************************************************************************)
(* SpecFn: one call of a frame-producing function of monoframe.rs and      *)
(* sdf.rs, or of index_to_spiral_coords, on bounded arguments.  The frames *)
(* are the small frames of SpecSdf; the border widths go one past          *)
(* MaxBorder; the fill values are one value no pixel has and one a pixel   *)
(* can have.  EdgeBorderArgs and EdgeSolidArgs add the arguments at and    *)
(* past the u16 limit of a dimension: sums of 65535 (the largest a u16     *)
(* holds), and sums of 65536 and more, which `as u16` truncates.           *)
(***************************************************************************)
FillColors == {7, 255}

BlackWhiteFrames == {f \in SmallFrames : \A i \in 1..Len(f.data) : f.data[i] \in {0, 255}}

EdgeBorderArgs ==
    {[fn |-> "add_border", frame |-> MonoFrame_new(<<>>, 65535, 0), border_width |-> 0,
      border_color |-> 7],
     [fn |-> "add_border", frame |-> MonoFrame_new(<<>>, 65533, 0), border_width |-> 1,
      border_color |-> 7],
     [fn |-> "add_border", frame |-> MonoFrame_new(<<>>, 1, 0), border_width |-> 32768,
      border_color |-> 7],
     [fn |-> "add_border", frame |-> MonoFrame_new(<<0, 255, 255, 0>>, 2, 2),
      border_width |-> 32767, border_color |-> 7]}

EdgeSolidArgs ==
    {[fn |-> "solid_color", width |-> 65535, height |-> 0, color |-> 7],
     [fn |-> "solid_color", width |-> 0, height |-> 65535, color |-> 7],
     [fn |-> "solid_color", width |-> 65535, height |-> 1, color |-> 7]}

FnArgs ==
    {[fn |-> "add_border", frame |-> f, border_width |-> b, border_color |-> c] :
        f \in BlackWhiteFrames, b \in 0..(MaxBorder + 1), c \in FillColors}
    \cup EdgeBorderArgs
    \cup {[fn |-> "solid_color", width |-> w, height |-> h, color |-> c] :
            w \in 0..MaxW, h \in 0..MaxH, c \in FillColors}
    \cup EdgeSolidArgs
    \cup {[fn |-> "binary_sdf", frame |-> f] : f \in SmallFrames}
    \cup {[fn |-> "index_to_spiral_coords", n |-> n] : n \in 0..MaxSpiral}

InitFn ==
    /\ fn_args \in FnArgs
    /\ fn_call = NoFnCall
    /\ BatchIdle
    /\ SdfIdle
    /\ ProjectIdle

FnCallOnce == fn_call.fn = "none"

Call_MonoFrame_solid_color ==
    /\ FnCallOnce
    /\ fn_args.fn = "solid_color"
    /\ fn_call' = [fn |-> "solid_color", status |-> "ok",
                   frame |-> MonoFrame_solid_color(fn_args.width, fn_args.height,
                                                   fn_args.color),
                   coords |-> <<0, 0>>]
    /\ UNCHANGED fn_args
    /\ UNCHANGED <<batchVars, sdfVars, projectVars>>

Call_MonoFrame_add_border ==
    /\ FnCallOnce
    /\ fn_args.fn = "add_border"
    /\ \E r \in {MonoFrame_add_border(fn_args.frame, fn_args.border_width,
                                       fn_args.border_color)} :
          fn_call' = [fn |-> "add_border", status |-> r.status,
                      frame |-> IF r.status = "ok" THEN r.frame ELSE EmptyFrame,
                      coords |-> <<0, 0>>]
    /\ UNCHANGED fn_args
    /\ UNCHANGED <<batchVars, sdfVars, projectVars>>

Call_fn_binary_sdf ==
    /\ FnCallOnce
    /\ fn_args.fn = "binary_sdf"
    /\ \E r \in {binary_sdf(fn_args.frame)} :
          fn_call' = [fn |-> "binary_sdf", status |-> r.status, frame |-> r.frame,
                      coords |-> <<0, 0>>]
    /\ UNCHANGED fn_args
    /\ UNCHANGED <<batchVars, sdfVars, projectVars>>

Call_index_to_spiral_coords ==
    /\ FnCallOnce
    /\ fn_args.fn = "index_to_spiral_coords"
    /\ fn_call' = [fn |-> "index_to_spiral_coords", status |-> "ok", frame |-> EmptyFrame,
                   coords |-> index_to_spiral_coords(fn_args.n)]
    /\ UNCHANGED fn_args
    /\ UNCHANGED <<batchVars, sdfVars, projectVars>>

NextFn ==
    \/ Call_MonoFrame_solid_color
    \/ Call_MonoFrame_add_border
    \/ Call_fn_binary_sdf
    \/ Call_index_to_spiral_coords

SpecFn == InitFn /\ [][NextFn]_vars

(***************************************************************************)
(* functions.rs / output.rs: one project of a configuration.               *)
(* Option<NonZeroU32> is a number, None being 0.  A path or formatted      *)
(* string is the tuple of its parts.  Both revisions of the output code    *)
(* are modelled: functions.rs (write_json_frames_parallel, the loop        *)
(* `for i in start..end` of write_tp_functions) and output.rs              *)
(* (write_json_frames, sequential and returning at the first error; the    *)
(* loop `for i in start..=end` of write_tp_functions).                     *)
(***************************************************************************)
None == 0

Revisions == {"functions", "output"}

CliError(kind, shown, count) == [kind |-> kind, shown |-> shown, count |-> count]

resolve_index_start_unshifted(frame_start) == frame_start

\* let index_start = match project_config.frame_start { None => 0, Some(s) => s - 1 }
resolve_index_start(frame_start) ==
    IF frame_start = None THEN 0 ELSE frame_start - 1

\* let index_end = match project_config.frame_end { None => frames.len(), Some(e) => e - 1 }
resolve_index_end(frame_end, frame_count) ==
    IF frame_end = None THEN frame_count ELSE frame_end - 1

\* if index_start.min(index_end) > frames.len()
invalid_frame_range(index_start, index_end, frame_count) ==
    Min2(index_start, index_end) > frame_count

\* relative_path.strip_prefix("./").unwrap(), then format!("{}:{}/", ..)
create_df_namespace(namespace, relative_path) ==
    IF relative_path[1] # "./"
    THEN [status |-> "panic", value |-> <<>>]
    ELSE [status |-> "ok", value |-> <<namespace, ":", relative_path[2], "/">>]

\* ((index_range.0 + 1)..index_range.1).map(|i| format!("{}{}", namespace, i)).collect()
grid_cell_args(index_range, namespace) ==
    [k \in 1..(index_range[2] - (index_range[1] + 1)) |-> <<namespace, index_range[1] + k>>]

grid_json(index_range, frame_dim, namespace) ==
    [type |-> "moredfs:gapped_grid_square_spiral",
     spacing |-> 1,
     x_size |-> frame_dim[1],
     z_size |-> frame_dim[2],
     out_of_bounds_argument |-> 256,
     grid_cell_args |-> Collect(grid_cell_args(index_range, namespace))]

\* the loop condition of write_tp_functions: `start..end` in functions.rs,
\* `start..=end` in output.rs
tp_loop_continues(revision, i, index_range) ==
    IF revision = "functions" THEN i < index_range[2] ELSE i <= index_range[2]

\* curr_x * 2 * frame_dim.0 as isize + frame_dim.0 as isize / 2, and for z
tp_coords(i, frame_dim) ==
    LET c == index_to_spiral_coords(i)
    IN  <<c[1] * 2 * frame_dim[1] + frame_dim[1] \div 2,
          c[2] * 2 * frame_dim[2] + frame_dim[2] \div 2>>

\* format!("tp @a {} {} {} 180 90", curr_x, tp_height, curr_z)
tp_string(i, frame_dim, tp_height) ==
    LET c == tp_coords(i, frame_dim)
    IN  <<"tp @a", c[1], tp_height, c[2], "180 90">>

\* format!("{}.mcfunction", i + 1)
tp_file_name(i) == i + 1

\* fs::create_dir_all(..).map_err(..)?: the function goes on only if the
\* directory could be created
create_dir_all_unchecked(io) == "Ok"

create_dir_all(io) == IF io = "dir_fails" THEN "Err" ELSE "Ok"

ProjectFile(kind, name) == <<kind, name>>

WriteFile(fs, key, content) ==
    [k \in DOMAIN fs \cup {key} |-> IF k = key THEN content ELSE fs[k]]

(***************************************************************************)
(* SpecProject: write_project_n_from_config ("run") or                     *)
(* test_project_n_from_config ("test") on a collection of 0..MaxFrames     *)
(* frames.  frame_start and frame_end range over None and 1..MaxFrames+2,  *)
(* so that ranges past the collection occur; each output kind is on or     *)
(* off; every create_dir_all and every write succeeds or fails.            *)
(***************************************************************************)
FrameCounts == 0..MaxFrames

FrameNumbers == {None} \cup (1..(MaxFrames + 2))

ProjectConfigs ==
    {[border_width |-> MaxBorder, border_color |-> 255, frame_start |-> s, frame_end |-> e,
      test_frame |-> t, namespace |-> "video", frame_dfs_dir |-> <<"./", "frames">>,
      make_frames |-> mf, make_grid |-> mg, make_tp |-> mt, tp_height |-> 220] :
        s \in FrameNumbers, e \in FrameNumbers, t \in {None},
        mf \in BOOLEAN, mg \in BOOLEAN, mt \in BOOLEAN}

TestConfigs ==
    {[border_width |-> MaxBorder, border_color |-> 255, frame_start |-> None,
      frame_end |-> None, test_frame |-> t, namespace |-> "video",
      frame_dfs_dir |-> <<"./", "frames">>,
      make_frames |-> mf, make_grid |-> mg, make_tp |-> mt, tp_height |-> 220] :
        t \in FrameNumbers, mf \in BOOLEAN, mg \in BOOLEAN, mt \in BOOLEAN}

DirOutcomes == {"ok", "dir_fails"}

WriteOutcomes == {"ok", "write_fails"}

InitProject ==
    /\ pj_revision \in Revisions
    /\ \E count \in FrameCounts : pj_frames = [k \in 1..count |-> VideoFrame(k)]
    /\ \/ pj_mode = "run" /\ pj_config \in ProjectConfigs
       \/ pj_mode = "test" /\ pj_config \in TestConfigs
    /\ pj_pc = "start"
    /\ pj_frame_dim = <<0, 0>>
    /\ pj_index_range = <<0, 0>>
    /\ pj_pending = {}
    /\ pj_errors = <<>>
    /\ pj_tp_i = 0
    /\ pj_dirs = {}
    /\ pj_dir_failed = {}
    /\ pj_files = NoFiles
    /\ pj_result = NoResult
    /\ RunIdle
    /\ BatchIdle
    /\ SdfIdle
    /\ FnIdle

projectInputs == <<pj_revision, pj_mode, pj_config, pj_frames, runVars>>

ProjectReturns(res) ==
    /\ pj_result' = res
    /\ pj_pc' = "returned"

\* frames[0].width / frames[0].height: indexing an empty Vec panics
IndexFirstFrame ==
    /\ pj_pc = "start"
    /\ IF Len(pj_frames) = 0
       THEN /\ ProjectReturns([status |-> "panic", err |-> NoError])
            /\ UNCHANGED pj_frame_dim
       ELSE /\ pj_frame_dim' = <<pj_frames[1].width + pj_config.border_width * 2,
                                 pj_frames[1].height + pj_config.border_width * 2>>
            /\ pj_pc' = "resolve"
            /\ UNCHANGED pj_result
    /\ UNCHANGED <<pj_index_range, pj_pending, pj_errors, pj_tp_i, pj_dirs, pj_dir_failed,
                   pj_files>>
    /\ UNCHANGED projectInputs
    /\ UNCHANGED <<batchVars, sdfVars, fnVars>>

\* write_project_n_from_config: index_start, index_end, the range check,
\* index_range and create_df_namespace
ResolveRange ==
    /\ pj_pc = "resolve"
    /\ pj_mode = "run"
    /\ LET index_start == resolve_index_start(pj_config.frame_start)
           index_end == resolve_index_end(pj_config.frame_end, Len(pj_frames))
       IN  IF invalid_frame_range(index_start, index_end, Len(pj_frames))
           THEN /\ ProjectReturns([status |-> "Err",
                                   err |-> CliError("InvalidFrameRange",
                                                    <<index_start + 1, index_end + 1>>,
                                                    Len(pj_frames))])
                /\ UNCHANGED pj_index_range
           ELSE /\ pj_index_range' = <<index_start, index_end>>
                /\ IF create_df_namespace(pj_config.namespace,
                                          pj_config.frame_dfs_dir).status = "panic"
                   THEN ProjectReturns([status |-> "panic", err |-> NoError])
                   ELSE pj_pc' = "frames" /\ UNCHANGED pj_result
    /\ UNCHANGED <<pj_frame_dim, pj_pending, pj_errors, pj_tp_i, pj_dirs, pj_dir_failed,
                   pj_files>>
    /\ UNCHANGED projectInputs
    /\ UNCHANGED <<batchVars, sdfVars, fnVars>>

\* test_project_n_from_config: test_frame_index, frames.get(..).ok_or(..)?
\* and index_range
ResolveTestFrame ==
    /\ pj_pc = "resolve"
    /\ pj_mode = "test"
    /\ LET test_frame_index == resolve_index_start(pj_config.test_frame)
       IN  IF test_frame_index >= Len(pj_frames)
           THEN /\ ProjectReturns([status |-> "Err",
                                   err |-> CliError("InvalidTestFrame", test_frame_index + 1,
                                                    Len(pj_frames))])
                /\ UNCHANGED pj_index_range
           ELSE /\ pj_index_range' = <<test_frame_index, test_frame_index + 1>>
                /\ pj_pc' = "save_test_frame"
                /\ UNCHANGED pj_result
    /\ UNCHANGED <<pj_frame_dim, pj_pending, pj_errors, pj_tp_i, pj_dirs, pj_dir_failed,
                   pj_files>>
    /\ UNCHANGED projectInputs
    /\ UNCHANGED <<batchVars, sdfVars, fnVars>>

\* target_frame.save_as(test_frame_{t+1}.png)?
SaveTestFrame ==
    /\ pj_pc = "save_test_frame"
    /\ \E io \in WriteOutcomes :
         IF io = "ok"
         THEN /\ pj_files' = WriteFile(pj_files,
                                       ProjectFile("test_frame", pj_index_range[1] + 1),
                                       pj_frames[pj_index_range[1] + 1])
              /\ pj_pc' = "save_gradated"
              /\ UNCHANGED pj_result
         ELSE /\ ProjectReturns([status |-> "Err",
                                 err |-> ImplError("ImageSaving", "save_as",
                                                   pj_index_range[1])])
              /\ UNCHANGED pj_files
    /\ UNCHANGED <<pj_frame_dim, pj_index_range, pj_pending, pj_errors, pj_tp_i, pj_dirs,
                   pj_dir_failed>>
    /\ UNCHANGED projectInputs
    /\ UNCHANGED <<batchVars, sdfVars, fnVars>>

\* binary_sdf(&target_frame.add_border(..)).save_as(gradated_test_frame_{t+1}.png)?
\* and create_df_namespace
SaveGradatedTestFrame ==
    /\ pj_pc = "save_gradated"
    /\ \E io \in WriteOutcomes :
       \E r \in {bordered_sdf(pj_frames[pj_index_range[1] + 1], pj_config.border_width,
                              pj_config.border_color)} :
         IF r.status = "panic"
         THEN /\ ProjectReturns([status |-> "panic", err |-> NoError])
              /\ UNCHANGED pj_files
         ELSE IF io # "ok"
         THEN /\ ProjectReturns([status |-> "Err",
                                 err |-> ImplError("ImageSaving", "save_as",
                                                   pj_index_range[1])])
              /\ UNCHANGED pj_files
         ELSE /\ pj_files' = WriteFile(pj_files,
                                       ProjectFile("gradated_test_frame",
                                                   pj_index_range[1] + 1),
                                       r.frame)
              /\ IF create_df_namespace(pj_config.namespace,
                                        pj_config.frame_dfs_dir).status = "panic"
                 THEN ProjectReturns([status |-> "panic", err |-> NoError])
                 ELSE pj_pc' = "frames" /\ UNCHANGED pj_result
    /\ UNCHANGED <<pj_frame_dim, pj_index_range, pj_pending, pj_errors, pj_tp_i, pj_dirs,
                   pj_dir_failed>>
    /\ UNCHANGED projectInputs
    /\ UNCHANGED <<batchVars, sdfVars, fnVars>>

\* if project_config.make_frames { .. } is skipped
SkipFrames ==
    /\ pj_pc = "frames"
    /\ ~pj_config.make_frames
    /\ pj_pc' = "grid"
    /\ UNCHANGED <<pj_frame_dim, pj_index_range, pj_pending, pj_errors, pj_tp_i, pj_dirs,
                   pj_dir_failed, pj_files, pj_result>>
    /\ UNCHANGED projectInputs
    /\ UNCHANGED <<batchVars, sdfVars, fnVars>>

\* write_json_frames_parallel / write_json_frames: create_dir_all, then the
\* zipped range
CreateFrameDir ==
    /\ pj_pc = "frames"
    /\ pj_config.make_frames
    /\ \E io \in DirOutcomes :
         /\ pj_dirs' = IF io = "ok" THEN pj_dirs \cup {"frames"} ELSE pj_dirs
         /\ pj_dir_failed' = IF io = "ok" THEN pj_dir_failed
                             ELSE pj_dir_failed \cup {"frames"}
         /\ IF create_dir_all(io) = "Ok"
            THEN /\ pj_pending' = zip_units(pj_index_range, pj_frames)
                 /\ pj_pc' = "frame_units"
                 /\ UNCHANGED pj_result
            ELSE /\ ProjectReturns([status |-> "Err",
                                    err |-> ImplError("CreateDirectory", "create_dir_all", 0)])
                 /\ UNCHANGED pj_pending
    /\ UNCHANGED <<pj_frame_dim, pj_index_range, pj_errors, pj_tp_i, pj_files>>
    /\ UNCHANGED projectInputs
    /\ UNCHANGED <<batchVars, sdfVars, fnVars>>

\* One (index, frame) unit of the frame stage.  functions.rs: any unit not
\* yet run, its error pushed to `errors`; output.rs: the next unit in index
\* order, its error returned at once by `?`.
FrameUnit ==
    /\ pj_pc = "frame_units"
    /\ \E i \in pj_pending :
       \E io \in WriteOutcomes :
       \E r \in {process_single_frame(pj_frames[i + 1], pj_frame_dim, i,
                                      pj_config.border_width, pj_config.border_color, io)} :
         /\ pj_revision = "output" => \A j \in pj_pending : i <= j
         /\ pj_pending' = pj_pending \ {i}
         /\ IF r.status = "panic"
            THEN /\ ProjectReturns([status |-> "panic", err |-> NoError])
                 /\ UNCHANGED <<pj_files, pj_errors>>
            ELSE IF r.status = "Ok"
            THEN /\ pj_files' = WriteFile(pj_files, ProjectFile("frames", frame_file_name(i)),
                                          r.written[1])
                 /\ UNCHANGED <<pj_errors, pj_pc, pj_result>>
            ELSE IF pj_revision = "functions"
            THEN /\ pj_errors' = Append(pj_errors, r.err)
                 /\ UNCHANGED <<pj_files, pj_pc, pj_result>>
            ELSE /\ ProjectReturns([status |-> "Err", err |-> r.err])
                 /\ UNCHANGED <<pj_files, pj_errors>>
    /\ UNCHANGED <<pj_frame_dim, pj_index_range, pj_tp_i, pj_dirs, pj_dir_failed>>
    /\ UNCHANGED projectInputs
    /\ UNCHANGED <<batchVars, sdfVars, fnVars>>

\* every unit has run: `if !errors.is_empty() { return Err(first) }`, then `?`
FrameStageDone ==
    /\ pj_pc = "frame_units"
    /\ pj_pending = {}
    /\ IF batch_result(pj_errors).status = "Err"
       THEN ProjectReturns(batch_result(pj_errors))
       ELSE pj_pc' = "grid" /\ UNCHANGED pj_result
    /\ UNCHANGED <<pj_frame_dim, pj_index_range, pj_pending, pj_errors, pj_tp_i, pj_dirs,
                   pj_dir_failed, pj_files>>
    /\ UNCHANGED projectInputs
    /\ UNCHANGED <<batchVars, sdfVars, fnVars>>

\* if project_config.make_grid { .. } is skipped
SkipGrid ==
    /\ pj_pc = "grid"
    /\ ~pj_config.make_grid
    /\ pj_pc' = "tp"
    /\ UNCHANGED <<pj_frame_dim, pj_index_range, pj_pending, pj_errors, pj_tp_i, pj_dirs,
                   pj_dir_failed, pj_files, pj_result>>
    /\ UNCHANGED projectInputs
    /\ UNCHANGED <<batchVars, sdfVars, fnVars>>

\* write_json_grid: fs::create_dir_all(&output_dir)..?
CreateGridDir ==
    /\ pj_pc = "grid"
    /\ pj_config.make_grid
    /\ \E io \in DirOutcomes :
         /\ pj_dirs' = IF io = "ok" THEN pj_dirs \cup {"grid"} ELSE pj_dirs
         /\ pj_dir_failed' = IF io = "ok" THEN pj_dir_failed ELSE pj_dir_failed \cup {"grid"}
         /\ IF create_dir_all(io) = "Ok"
            THEN pj_pc' = "grid_write" /\ UNCHANGED pj_result
            ELSE ProjectReturns([status |-> "Err",
                                 err |-> ImplError("CreateDirectory", "create_dir_all", 0)])
    /\ UNCHANGED <<pj_frame_dim, pj_index_range, pj_pending, pj_errors, pj_tp_i, pj_files>>
    /\ UNCHANGED projectInputs
    /\ UNCHANGED <<batchVars, sdfVars, fnVars>>

\* write_json_grid: the record, to_string_pretty, fs::write(all_frames.json)
WriteGridFile ==
    /\ pj_pc = "grid_write"
    /\ \E io \in WriteOutcomes :
         IF io = "ok"
         THEN /\ pj_files' =
                   WriteFile(pj_files, ProjectFile("grid", "all_frames"),
                             grid_json(pj_index_range, pj_frame_dim,
                                       create_df_namespace(pj_config.namespace,
                                                           pj_config.frame_dfs_dir).value))
              /\ pj_pc' = "tp"
              /\ UNCHANGED pj_result
         ELSE /\ ProjectReturns([status |-> "Err",
                                 err |-> ImplError("FileWrite", "fs::write", 0)])
              /\ UNCHANGED pj_files
    /\ UNCHANGED <<pj_frame_dim, pj_index_range, pj_pending, pj_errors, pj_tp_i, pj_dirs,
                   pj_dir_failed>>
    /\ UNCHANGED projectInputs
    /\ UNCHANGED <<batchVars, sdfVars, fnVars>>

\* if project_config.make_tp { .. } is skipped: Ok(())
SkipTp ==
    /\ pj_pc = "tp"
    /\ ~pj_config.make_tp
    /\ ProjectReturns([status |-> "Ok", err |-> NoError])
    /\ UNCHANGED <<pj_frame_dim, pj_index_range, pj_pending, pj_errors, pj_tp_i, pj_dirs,
                   pj_dir_failed, pj_files>>
    /\ UNCHANGED projectInputs
    /\ UNCHANGED <<batchVars, sdfVars, fnVars>>

\* write_tp_functions: fs::create_dir_all(&output_dir)..?, then i = start
CreateTpDir ==
    /\ pj_pc = "tp"
    /\ pj_config.make_tp
    /\ \E io \in DirOutcomes :
         /\ pj_dirs' = IF io = "ok" THEN pj_dirs \cup {"tp"} ELSE pj_dirs
         /\ pj_dir_failed' = IF io = "ok" THEN pj_dir_failed ELSE pj_dir_failed \cup {"tp"}
         /\ IF create_dir_all(io) = "Ok"
            THEN /\ pj_tp_i' = pj_index_range[1]
                 /\ pj_pc' = "tp_loop"
                 /\ UNCHANGED pj_result
            ELSE /\ ProjectReturns([status |-> "Err",
                                    err |-> ImplError("CreateDirectory", "create_dir_all", 0)])
                 /\ UNCHANGED pj_tp_i
    /\ UNCHANGED <<pj_frame_dim, pj_index_range, pj_pending, pj_errors, pj_files>>
    /\ UNCHANGED projectInputs
    /\ UNCHANGED <<batchVars, sdfVars, fnVars>>

\* one iteration of the loop of write_tp_functions
WriteTpFunction ==
    /\ pj_pc = "tp_loop"
    /\ tp_loop_continues(pj_revision, pj_tp_i, pj_index_range)
    /\ \E io \in WriteOutcomes :
         IF io = "ok"
         THEN /\ pj_files' = WriteFile(pj_files, ProjectFile("tp", tp_file_name(pj_tp_i)),
                                       tp_string(pj_tp_i, pj_frame_dim, pj_config.tp_height))
              /\ pj_tp_i' = pj_tp_i + 1
              /\ UNCHANGED <<pj_pc, pj_result>>
         ELSE /\ ProjectReturns([status |-> "Err",
                                 err |-> ImplError("FileWrite", "fs::write", pj_tp_i)])
              /\ UNCHANGED <<pj_files, pj_tp_i>>
    /\ UNCHANGED <<pj_frame_dim, pj_index_range, pj_pending, pj_errors, pj_dirs,
                   pj_dir_failed>>
    /\ UNCHANGED projectInputs
    /\ UNCHANGED <<batchVars, sdfVars, fnVars>>

\* the loop of write_tp_functions is over: Ok(())
TpLoopDone ==
    /\ pj_pc = "tp_loop"
    /\ ~tp_loop_continues(pj_revision, pj_tp_i, pj_index_range)
    /\ ProjectReturns([status |-> "Ok", err |-> NoError])
    /\ UNCHANGED <<pj_frame_dim, pj_index_range, pj_pending, pj_errors, pj_tp_i, pj_dirs,
                   pj_dir_failed, pj_files>>
    /\ UNCHANGED projectInputs
    /\ UNCHANGED <<batchVars, sdfVars, fnVars>>

NextProject ==
    \/ IndexFirstFrame
    \/ ResolveRange
    \/ ResolveTestFrame
    \/ SaveTestFrame
    \/ SaveGradatedTestFrame
    \/ SkipFrames
    \/ CreateFrameDir
    \/ FrameUnit
    \/ FrameStageDone
    \/ SkipGrid
    \/ CreateGridDir
    \/ WriteGridFile
    \/ SkipTp
    \/ CreateTpDir
    \/ WriteTpFunction
    \/ TpLoopDone

SpecProject == InitProject /\ [][NextProject]_vars

(***************************************************************************)
(* SpecRun: write_projects_from_config on a configuration of 0 to          *)
(* MaxProjects projects.  The project at position k has tp_height 220 + k, *)
(* so that the projects differ; each has its own directories, and          *)
(* run_files keeps the files of the directories of every project while     *)
(* pj_files are those of the project being written.                        *)
(***************************************************************************)
MaxProjects == 2

RunConfigs(k) ==
    {[border_width |-> MaxBorder, border_color |-> 255, frame_start |-> None,
      frame_end |-> None, test_frame |-> None, namespace |-> "video",
      frame_dfs_dir |-> <<"./", "frames">>,
      make_frames |-> mf, make_grid |-> mg, make_tp |-> mt, tp_height |-> 220 + k] :
        mf \in BOOLEAN, mg \in BOOLEAN, mt \in BOOLEAN}

RunProjectLists ==
    UNION {{projects \in [1..count -> UNION {RunConfigs(k) : k \in 0..(count - 1)}] :
                \A k \in 1..count : projects[k] \in RunConfigs(k - 1)} :
           count \in 0..MaxProjects}

\* config.projects.get(n)
project_config(projects, n) == projects[n + 1]

\* the loop going on whatever the project returned
loop_goes_on_always(res) == TRUE

\* write_project_n_from_config(..)?: the loop goes on only after Ok(())
loop_goes_on(res) == res.status = "Ok"

projectLocals == <<pj_pc, pj_frame_dim, pj_index_range, pj_pending, pj_errors, pj_tp_i,
                   pj_dirs, pj_dir_failed, pj_files, pj_result>>

InitRun ==
    /\ pj_revision \in Revisions
    /\ \E count \in FrameCounts : pj_frames = [k \in 1..count |-> VideoFrame(k)]
    /\ pj_mode = "run"
    /\ pj_config = [make_frames |-> FALSE]
    /\ pj_pc = "idle"
    /\ pj_frame_dim = <<0, 0>>
    /\ pj_index_range = <<0, 0>>
    /\ pj_pending = {}
    /\ pj_errors = <<>>
    /\ pj_tp_i = 0
    /\ pj_dirs = {}
    /\ pj_dir_failed = {}
    /\ pj_files = NoFiles
    /\ pj_result = NoResult
    /\ run_pc = "start"
    /\ run_projects \in RunProjectLists
    /\ run_n = 0
    /\ run_root = FALSE
    /\ run_files = [m \in 1..Len(run_projects) |-> NoFiles]
    /\ run_result = NoResult
    /\ BatchIdle
    /\ SdfIdle
    /\ FnIdle

\* fs::create_dir_all(&config.output_root_dir)..?, then the loop from n = 0
CreateRootDir ==
    /\ run_pc = "start"
    /\ \E io \in DirOutcomes :
         IF create_dir_all(io) = "Ok"
         THEN /\ run_root' = TRUE
              /\ run_pc' = "loop"
              /\ UNCHANGED run_result
         ELSE /\ run_result' = [status |-> "Err",
                                err |-> ImplError("CreateDirectory", "create_dir_all", 0)]
              /\ run_pc' = "returned"
              /\ UNCHANGED run_root
    /\ UNCHANGED <<run_projects, run_n, run_files>>
    /\ UNCHANGED <<pj_revision, pj_mode, pj_config, pj_frames, projectLocals>>
    /\ UNCHANGED <<batchVars, sdfVars, fnVars>>

\* for n in 0..num_projects { write_project_n_from_config(&frames, n, &config) .. }:
\* the call for the next n, project_config = config.projects.get(n)
CallProject ==
    /\ run_pc = "loop"
    /\ run_n < Len(run_projects)
    /\ pj_config' = project_config(run_projects, run_n)
    /\ pj_pc' = "start"
    /\ pj_frame_dim' = <<0, 0>>
    /\ pj_index_range' = <<0, 0>>
    /\ pj_pending' = {}
    /\ pj_errors' = <<>>
    /\ pj_tp_i' = 0
    /\ pj_dirs' = {}
    /\ pj_dir_failed' = {}
    /\ pj_files' = run_files[run_n + 1]
    /\ pj_result' = NoResult
    /\ run_pc' = "project"
    /\ UNCHANGED <<run_projects, run_n, run_root, run_files, run_result>>
    /\ UNCHANGED <<pj_revision, pj_mode, pj_frames>>
    /\ UNCHANGED <<batchVars, sdfVars, fnVars>>

\* write_project_n_from_config has returned: `?` returns its error from
\* write_projects_from_config, Ok(()) goes on with n + 1; a panic ends the
\* process
ProjectCallReturns ==
    /\ run_pc = "project"
    /\ pj_pc = "returned"
    /\ run_files' = [run_files EXCEPT ![run_n + 1] = pj_files]
    /\ pj_pc' = "idle"
    /\ IF pj_result.status # "panic" /\ loop_goes_on(pj_result)
       THEN /\ run_n' = run_n + 1
            /\ run_pc' = "loop"
            /\ UNCHANGED run_result
       ELSE /\ run_result' = pj_result
            /\ run_pc' = "returned"
            /\ UNCHANGED run_n
    /\ UNCHANGED <<run_projects, run_root>>
    /\ UNCHANGED <<pj_revision, pj_mode, pj_config, pj_frames, pj_frame_dim, pj_index_range,
                   pj_pending, pj_errors, pj_tp_i, pj_dirs, pj_dir_failed, pj_files,
                   pj_result>>
    /\ UNCHANGED <<batchVars, sdfVars, fnVars>>

\* the loop is over: Ok(())
RunLoopDone ==
    /\ run_pc = "loop"
    /\ run_n >= Len(run_projects)
    /\ run_result' = [status |-> "Ok", err |-> NoError]
    /\ run_pc' = "returned"
    /\ UNCHANGED <<run_projects, run_n, run_root, run_files>>
    /\ UNCHANGED <<pj_revision, pj_mode, pj_config, pj_frames, projectLocals>>
    /\ UNCHANGED <<batchVars, sdfVars, fnVars>>

NextRun ==
    \/ CreateRootDir
    \/ CallProject
    \/ IndexFirstFrame
    \/ ResolveRange
    \/ SkipFrames
    \/ CreateFrameDir
    \/ FrameUnit
    \/ FrameStageDone
    \/ SkipGrid
    \/ CreateGridDir
    \/ WriteGridFile
    \/ SkipTp
    \/ CreateTpDir
    \/ WriteTpFunction
    \/ TpLoopDone
    \/ ProjectCallReturns
    \/ RunLoopDone

SpecRun == InitRun /\ [][NextRun]_vars

(***************************************************************************)
(* main.rs: the single-sided transform (binary_sdf, chebyshev_sdf_two_pass *)
(* and chebyshev_sdf_forward_pass of the one-file revision).  The cost of  *)
(* a pixel that is no seed starts at usize::MAX.  UsizeMax stands for that *)
(* value: the model only compares it and adds 1 to it, and `n_dist + 1`    *)
(* on usize::MAX is what the build makes of it: a panic where overflow     *)
(* checks are on (debug), a wrap to 0 where they are off (release).        *)
(***************************************************************************)
UsizeMax == 2147483647

Builds == {"debug", "release"}

\* n_dist + 1
usize_add_one(n_dist, build) ==
    IF n_dist # UsizeMax THEN [status |-> "ok", value |-> n_dist + 1]
    ELSE IF build = "debug" THEN [status |-> "panic", value |-> 0]
    ELSE [status |-> "ok", value |-> 0]

\* let new_dist = n_dist + 1; if new_dist < curr_dist { curr_dist = new_dist; }
relax(acc, n_dist, build) ==
    IF acc.status = "panic" THEN acc
    ELSE LET new_dist == usize_add_one(n_dist, build)
         IN  IF new_dist.status = "panic" THEN [status |-> "panic", curr |-> acc.curr]
             ELSE IF new_dist.value < acc.curr
             THEN [status |-> "ok", curr |-> new_dist.value]
             ELSE acc

\* one iteration of the loops of main.rs chebyshev_sdf_forward_pass, at
\* index idx: top-left, top, left
MainForwardStep(st, width, height, idx, build) ==
    IF st.status = "panic" THEN st
    ELSE LET df == st.data
             x == idx % width
             y == idx \div width
             c0 == [status |-> "ok", curr |-> df[idx + 1]]
             c1 == IF x > 0 /\ y > 0 THEN relax(c0, df[idx - width - 1 + 1], build) ELSE c0
             c2 == IF y > 0 THEN relax(c1, df[idx - width + 1], build) ELSE c1
             c3 == IF x > 0 THEN relax(c2, df[idx - 1 + 1], build) ELSE c2
         IN  IF c3.status = "panic" THEN [status |-> "panic", data |-> df]
             ELSE [status |-> "ok", data |-> [df EXCEPT ![idx + 1] = c3.curr]]

RECURSIVE MainForwardRange(_, _, _, _, _, _)
\* the iterations for the indices lo .. hi - 1, in increasing order
MainForwardRange(st, width, height, lo, hi, build) ==
    IF hi <= lo THEN st
    ELSE IF hi = lo + 1 THEN MainForwardStep(st, width, height, lo, build)
    ELSE LET mid == (lo + hi) \div 2
             firstHalf == MainForwardRange(st, width, height, lo, mid, build)
         IN  IF firstHalf.status = "panic" THEN firstHalf
             ELSE MainForwardRange(firstHalf, width, height, mid, hi, build)

main_chebyshev_sdf_forward_pass(distance_field, width, height, build) ==
    MainForwardRange([status |-> "ok", data |-> distance_field], width, height, 0,
                     width * height, build)

\* vec![usize::MAX; width * height], seeds set to 0, forward pass, reverse,
\* forward pass, reverse
chebyshev_sdf_two_pass(image, width, height, threshold, build) ==
    LET seeded == Collect([i \in 1..(width * height) |->
                     IF i <= Len(image) /\ image[i] > threshold THEN 0 ELSE UsizeMax])
        first == main_chebyshev_sdf_forward_pass(seeded, width, height, build)
    IN  IF first.status = "panic" THEN first
        ELSE LET second == main_chebyshev_sdf_forward_pass(Reverse(first.data), width,
                                                           height, build)
             IN  IF second.status = "panic" THEN second
                 ELSE [status |-> "ok", data |-> Reverse(second.data)]

\* `x * 255.0`; 255 * x.m passes 2^31, so the product is taken in two halves
F32Mul255(x) ==
    IF x.nan THEN F32Nan
    ELSE IF x.m = 0 THEN F32Val(0, 0)
    ELSE LET sh == IF 2 * x.m > 16843009 THEN 8 ELSE 7
             mh == x.m \div 256
             ml == 255 * (x.m % 256)
             q == (255 * mh) * (2 ^ (8 - sh)) + (ml \div (2 ^ sh))
             r == ml % (2 ^ sh)
             half == 2 ^ (sh - 1)
             up == r > half \/ (r = half /\ q % 2 = 1)
         IN  F32Normalize(IF up THEN q + 1 ELSE q, x.e + sh)

\* `x.round().clamp(0.0, 255.0) as u8`
F32RoundClamp255(x) ==
    IF x.nan THEN 0
    ELSE IF x.m = 0 THEN 0
    ELSE LET k == 0 - x.e
             r == IF k <= 0 THEN 256
                  ELSE IF k >= 25 THEN 0
                  ELSE (x.m + 2 ^ (k - 1)) \div (2 ^ k)
         IN  Min2(Max2(r, 0), 255)

\* val as f32 / max_value as f32; usize::MAX as f32 is 2^64, and x / x = 1.0
usize_ratio_f32(val, max_value) ==
    IF max_value = UsizeMax
    THEN IF val = UsizeMax THEN F32Val(2 ^ 23, 0 - 23) ELSE F32Val(0, 0)
    ELSE F32Div(val, max_value)

\* (norm * 255.0).round().clamp(0.0, 255.0) as u8, norm = 1.0 - val / max_value
main_sdf_byte(val, max_value) ==
    F32RoundClamp255(F32Mul255(F32OneMinus(usize_ratio_f32(val, max_value))))

\* binary_sdf of main.rs without `if max_value == 0 { return .. }`
main_binary_sdf_no_zero_case(frame, build) ==
    LET sdf_raw == chebyshev_sdf_two_pass(frame.data, frame.width, frame.height,
                                          Threshold, build)
    IN  IF sdf_raw.status = "panic" \/ Len(sdf_raw.data) = 0
        THEN [status |-> "panic", frame |-> EmptyFrame]
        ELSE LET max_value == SeqMax(sdf_raw.data)
             IN  [status |-> "ok",
                  frame |-> MonoFrame_new(
                      Collect([i \in 1..Len(sdf_raw.data) |->
                                 main_sdf_byte(sdf_raw.data[i], max_value)]),
                      frame.width, frame.height)]

\* binary_sdf of main.rs: the frame it returns, or the panic of the overflow
\* check or of `.max().expect("SDF Raw should never have size 0")`
main_binary_sdf(frame, build) ==
    LET sdf_raw == chebyshev_sdf_two_pass(frame.data, frame.width, frame.height,
                                          Threshold, build)
    IN  IF sdf_raw.status = "panic" \/ Len(sdf_raw.data) = 0
        THEN [status |-> "panic", frame |-> EmptyFrame]
        ELSE LET max_value == SeqMax(sdf_raw.data)
             IN  IF max_value = 0
                 THEN [status |-> "ok",
                       frame |-> MonoFrame_new(Collect([i \in 1..Len(sdf_raw.data) |-> 255]),
                                               frame.width, frame.height)]
                 ELSE [status |-> "ok",
                       frame |-> MonoFrame_new(
                           Collect([i \in 1..Len(sdf_raw.data) |->
                                      main_sdf_byte(sdf_raw.data[i], max_value)]),
                           frame.width, frame.height)]

(***************************************************************************)
(* SpecMain: one call of the single-sided binary_sdf or of                 *)
(* chebyshev_sdf_two_pass of main.rs on a small frame, in a build with or  *)
(* without overflow checks.                                                *)
(***************************************************************************)
MainArgs ==
    {[fn |-> f, frame |-> fr, build |-> b] :
        f \in {"main_binary_sdf", "chebyshev_sdf_two_pass"}, fr \in SmallFrames, b \in Builds}

InitMain ==
    /\ fn_args \in MainArgs
    /\ fn_call = NoFnCall
    /\ BatchIdle
    /\ SdfIdle
    /\ ProjectIdle

Call_chebyshev_sdf_two_pass ==
    /\ FnCallOnce
    /\ fn_args.fn = "chebyshev_sdf_two_pass"
    /\ \E r \in {chebyshev_sdf_two_pass(fn_args.frame.data, fn_args.frame.width,
                                        fn_args.frame.height, Threshold, fn_args.build)} :
          fn_call' = [fn |-> "chebyshev_sdf_two_pass", status |-> r.status,
                      frame |-> EmptyFrame,
                      field |-> IF r.status = "ok" THEN r.data ELSE <<>>]
    /\ UNCHANGED fn_args
    /\ UNCHANGED <<batchVars, sdfVars, projectVars>>

Call_main_binary_sdf ==
    /\ FnCallOnce
    /\ fn_args.fn = "main_binary_sdf"
    /\ \E r \in {main_binary_sdf(fn_args.frame, fn_args.build)} :
          fn_call' = [fn |-> "main_binary_sdf", status |-> r.status, frame |-> r.frame,
                      field |-> <<>>]
    /\ UNCHANGED fn_args
    /\ UNCHANGED <<batchVars, sdfVars, projectVars>>

NextMain ==
    \/ Call_chebyshev_sdf_two_pass
    \/ Call_main_binary_sdf

SpecMain == InitMain /\ [][NextMain]_vars

(***************************************************************************)
(* Properties of the distance-field functions (SpecSdf).                   *)
(***************************************************************************)
PixelX(i, width) == (i - 1) % width

PixelY(i, width) == (i - 1) \div width

\* max(|dx|, |dy|) between the pixels at positions i and j
ChebyshevDistance(i, j, width) ==
    Max2(Abs(PixelX(i, width) - PixelX(j, width)), Abs(PixelY(i, width) - PixelY(j, width)))

AbovePixels(f) == {j \in 1..Len(f.data) : f.data[j] > Threshold}

BelowPixels(f) == {j \in 1..Len(f.data) : f.data[j] <= Threshold}

SetMin(S) == CHOOSE m \in S : \A v \in S : m <= v

\* the distance the claim demands at pixel i for the seed set seeds
ExactDistance(f, seeds, i) ==
    IF seeds = {} THEN f.width + f.height
    ELSE SetMin({ChebyshevDistance(i, j, f.width) : j \in seeds})

SeedsOfCall ==
    IF sdf_call.fn = "chebyshev_sdf_above" THEN AbovePixels(sdf_frame)
    ELSE BelowPixels(sdf_frame)

NonEmptyFrame == sdf_frame.width >= 1 /\ sdf_frame.height >= 1

BinarySdfReturned == sdf_call.fn = "binary_sdf" /\ sdf_call.status = "ok"

BothRegions == AbovePixels(sdf_frame) # {} /\ BelowPixels(sdf_frame) # {}

\* C5: for every frame of width and height at least 1 and either seed set,
\* the two-pass transform returns at each pixel the exact Chebyshev distance
\* to the nearest seed pixel, and width + height at every pixel when there
\* is no seed; every value is in 0 .. width + height.
Thm_C5_ChebyshevExact ==
    (sdf_call.fn \in {"chebyshev_sdf_above", "chebyshev_sdf_below"} /\ NonEmptyFrame) =>
        /\ Len(sdf_call.field) = sdf_frame.width * sdf_frame.height
        /\ \A i \in 1..Len(sdf_call.field) :
             /\ sdf_call.field[i] = ExactDistance(sdf_frame, SeedsOfCall, i)
             /\ sdf_call.field[i] \in 0..(sdf_frame.width + sdf_frame.height)

\* a field of at least 2 x 2 pixels with seeds in which a distance of 2 occurs
Wit_C5_DistanceTwo ==
    /\ sdf_call.fn = "chebyshev_sdf_above"
    /\ sdf_frame.width >= 2 /\ sdf_frame.height >= 2
    /\ SeedsOfCall # {}
    /\ \E i \in 1..Len(sdf_call.field) : sdf_call.field[i] = 2

\* C6: for every frame and pixel the (b)-derived byte is 128 if
\* and only if the pixel is a below-or-equal-threshold pixel (dist_b = 0),
\* so that the (a)-derived byte is taken exactly at those pixels.
Cex_C6_TieBreakIffSeed ==
    BinarySdfReturned =>
        \A i \in 1..Len(sdf_call.out.data) :
            /\ (sdf_call.locals.below_bytes[i] = 128) <=> (sdf_call.locals.below_distances[i] = 0)
            /\ (sdf_call.locals.below_bytes[i] = 128) <=> (sdf_frame.data[i] <= Threshold)

AllBelow == NonEmptyFrame /\ AbovePixels(sdf_frame) = {}

Frame2x2 == MonoFrame_new(<<0, 255, 0, 255>>, 2, 2)

Cex_C10_ZeroAreaRejected ==
    (sdf_call.fn = "binary_sdf" /\ ~NonEmptyFrame) => sdf_call.status = "error"

\* C27: for every non-empty frame the byte 128 never occurs in the frame
\* binary_sdf returns: every output byte is either in 0..127 and is the
\* (a)-derived byte of its pixel, or in 129..255 and is the (b)-derived byte
\* of its pixel; the (b)-derived byte, 128 plus the clamped magnitude, never
\* exceeds 255.
Thm_C27_Never128 ==
    (sdf_call.fn = "binary_sdf" /\ NonEmptyFrame) =>
        /\ sdf_call.status = "ok"
        /\ Len(sdf_call.out.data) = sdf_frame.width * sdf_frame.height
        /\ \A i \in 1..Len(sdf_call.out.data) :
             /\ sdf_call.out.data[i] # 128
             /\ sdf_call.locals.below_bytes[i] \in 128..255
             /\ sdf_call.locals.above_bytes[i] \in 0..127
             /\ \/ /\ sdf_call.out.data[i] \in 0..127
                   /\ sdf_call.out.data[i] = sdf_call.locals.above_bytes[i]
                \/ /\ sdf_call.out.data[i] \in 129..255
                   /\ sdf_call.out.data[i] = sdf_call.locals.below_bytes[i]

\* binary_sdf has returned for a frame in which the (b)-derived byte is the
\* marker 128 at a pixel, 129 at another and 255 at a third
Wit_C27_MarkerAndNeighbours ==
    /\ BinarySdfReturned /\ NonEmptyFrame
    /\ \E i, j, k \in 1..Len(sdf_call.out.data) :
         /\ sdf_call.locals.below_bytes[i] = 128
         /\ sdf_call.locals.below_bytes[j] = 129 /\ sdf_call.out.data[j] = 129
         /\ sdf_call.locals.below_bytes[k] = 255 /\ sdf_call.out.data[k] = 255

(***************************************************************************)
(* Properties of write_json_frames_parallel (Spec).                        *)
(***************************************************************************)
RangeIndices == call_index_range[1]..(call_index_range[2] - 1)

RangeWithinFrames == call_index_range[2] <= Len(call_frames)

\* for_each has returned: every unit of the iterator has been run
SweepEnded == dir_exists /\ pc \in {"inspect", "returned"}

FailedUnits == {i \in Indices : unit_res[i] = "Err"}

OkUnits == {i \in Indices : unit_res[i] = "Ok"}

JsonFile(n) == [dir |-> "frame_dir", stem |-> n, ext |-> "json"]

\* the record a successful unit writes for index i
RecordOf(i) ==
    process_single_frame(call_frames[i + 1], call_frame_dim, i, call_border_width,
                         call_border_color, "ok").written[1]

\* C1: for a range [start, end) with end <= frame_count, under every
\* interleaving of the workers every index of the range is processed exactly
\* once: a failed index does not stop the others from being attempted, no
\* index is attempted again, and a successful index i writes its record to
\* the file (i+1).json.
Thm_C1_EveryIndexOnce ==
    /\ \A i \in Indices : attempts[i] <= 1
    /\ (SweepEnded /\ RangeWithinFrames) =>
          \A i \in Indices :
              IF i \in RangeIndices
              THEN attempts[i] = 1 /\ unit_res[i] \in {"Ok", "Err"}
              ELSE attempts[i] = 0 /\ unit_res[i] = "none"
    /\ \A i \in OkUnits :
          /\ JsonFile(i + 1) \in DOMAIN files
          /\ files[JsonFile(i + 1)] = RecordOf(i)

\* the sweep has ended over a range of at least three indices in which the
\* first index failed and a later one succeeded
Wit_C1_FailedThenOk ==
    /\ SweepEnded /\ RangeWithinFrames
    /\ call_index_range[2] - call_index_range[1] >= 3
    /\ unit_res[call_index_range[1]] = "Err"
    /\ \E i \in RangeIndices : i > call_index_range[1] /\ unit_res[i] = "Ok"

ResultFollowsUnits ==
    /\ (result.status = "Err") <=> (FailedUnits # {})
    /\ (FailedUnits = {}) => result = [status |-> "Ok", err |-> NoError]
    /\ (result.status = "Err") =>
          /\ result.err = errors_vec[1]
          /\ \E i \in FailedUnits : result.err = unit_err[i]

\* C2 as stated: the call returns failure if and only if at least one unit
\* failed; the error it returns is the first one appended to the failure
\* list, an error of a failed unit; with no failed unit it returns success.
Cex_C2_FailureIffUnitFailed == (pc = "returned") => ResultFollowsUnits

\* C2 amended: once the output directory has been created, the call returns
\* failure if and only if at least one unit failed, with the first error
\* appended to the failure list, and success when no unit failed; when the
\* directory cannot be created it returns the CreateDirectory error and has
\* run no unit.
Thm_C2_FailureIffUnitFailedAfterMkdir ==
    (pc = "returned") =>
        IF dir_exists THEN ResultFollowsUnits
        ELSE /\ result = [status |-> "Err",
                          err |-> ImplError("CreateDirectory", "create_dir_all", 0)]
             /\ \A i \in Indices : attempts[i] = 0
             /\ files = NoFiles

\* the call has returned the first error appended, which is not the error
\* of the lowest failed index
Wit_C2_FirstAppended ==
    /\ pc = "returned" /\ dir_exists
    /\ Len(errors_vec) >= 2
    /\ result.status = "Err"
    /\ result.err = errors_vec[1]
    /\ \E i \in FailedUnits : i < result.err.index

\* C3: when the call reports failure, every record a successful unit of the
\* batch wrote is still present and unchanged: no step of the batch deletes
\* or rewrites a record it wrote.
Thm_C3_NoRollback ==
    /\ []((pc = "returned" /\ result.status = "Err") =>
            \A i \in OkUnits :
                JsonFile(i + 1) \in DOMAIN files /\ files[JsonFile(i + 1)] = RecordOf(i))
    /\ [][\A n \in DOMAIN files : n \in DOMAIN files' /\ files'[n] = files[n]]_vars

\* the call has reported failure and the records of two successful units
\* are on disk
Wit_C3_FailedWithRecords ==
    /\ pc = "returned" /\ result.status = "Err"
    /\ Cardinality(OkUnits) >= 2
    /\ \A i \in OkUnits : JsonFile(i + 1) \in DOMAIN files

\* C4: under every interleaving, appends to the failure list are mutually
\* exclusive and none is lost: when all units have finished the list holds
\* exactly one entry per failed unit, and the list is inspected only after
\* every unit of the range has finished.
Thm_C4_MutexNoLostAppend ==
    /\ Cardinality({w \in Workers : wpc[w] = "push"}) <= 1
    /\ \A w \in Workers : (wpc[w] = "push") => (mutex = w /\ wvec[w] = errors_vec)
    /\ SweepEnded =>
          /\ Len(errors_vec) = Cardinality(FailedUnits)
          /\ \A i \in FailedUnits :
                Cardinality({k \in 1..Len(errors_vec) : errors_vec[k] = unit_err[i]}) = 1
          /\ \A k \in 1..Len(errors_vec) : errors_vec[k].index \in FailedUnits
    /\ (pc \in {"inspect", "returned"} /\ dir_exists) =>
          /\ pending = {}
          /\ \A w \in Workers : wpc[w] = "idle"
          /\ mutex = 0
          /\ RangeWithinFrames => \A i \in RangeIndices : unit_res[i] # "none"

\* a worker holds the lock with its append pending, after an earlier
\* append, while another worker waits for the lock
Wit_C4_Contention ==
    /\ errors_vec # <<>>
    /\ \E w1, w2 \in Workers : wpc[w1] = "push" /\ wpc[w2] = "lock"

(***************************************************************************)
(* Properties of the frame constructors and of the spiral (SpecFn).        *)
(***************************************************************************)
AddBorderReturned == fn_call.fn = "add_border"

\* the dimensions of the bordered frame fit a u16
BorderFits ==
    /\ fn_args.frame.width + 2 * fn_args.border_width <= U16 - 1
    /\ fn_args.frame.height + 2 * fn_args.border_width <= U16 - 1

\* C11: for a w x h frame with w*h pixels, a border b with w+2b and h+2b at
\* most 65535 and any fill c, add_border completes without an out-of-range
\* slice and returns a (w+2b) x (h+2b) frame whose pixel (x+b, y+b) is the
\* source pixel (x, y) and whose every other pixel is c.
Thm_C11_AddBorder ==
    (AddBorderReturned /\ BorderFits) =>
        LET src == fn_args.frame
            b == fn_args.border_width
            out == fn_call.frame
        IN  /\ fn_call.status = "ok"
            /\ out.width = src.width + 2 * b
            /\ out.height = src.height + 2 * b
            /\ Len(out.data) = out.width * out.height
            /\ \A i \in 1..Len(out.data) :
                  LET x == PixelX(i, out.width) - b
                      y == PixelY(i, out.width) - b
                  IN  out.data[i] =
                        IF x >= 0 /\ x < src.width /\ y >= 0 /\ y < src.height
                        THEN src.data[y * src.width + x + 1]
                        ELSE fn_args.border_color

\* a bordered two-colour frame whose fill is neither colour
Wit_C11_BorderedTwoColours ==
    /\ AddBorderReturned
    /\ BorderFits
    /\ fn_args.border_width = MaxBorder
    /\ fn_args.border_color = 7
    /\ \E i, j \in 1..Len(fn_args.frame.data) :
          fn_args.frame.data[i] = 0 /\ fn_args.frame.data[j] = 255
    /\ fn_call.status = "ok"
    /\ fn_call.frame.data[1] = 7

FrameReturned ==
    /\ fn_call.fn \in {"solid_color", "add_border", "binary_sdf"}
    /\ fn_call.status = "ok"

\* C12: every frame solid_color, add_border and binary_sdf return has
\* data.length == width * height, for any input frame that has it, any border
\* width (those that make a dimension pass 65535 included) and any fill.
Thm_C12_DataLength ==
    FrameReturned =>
        Len(fn_call.frame.data) = fn_call.frame.width * fn_call.frame.height

\* add_border returned a frame although the bordered dimensions pass 65535
Wit_C12_TruncatedBorder ==
    /\ FrameReturned
    /\ fn_call.fn = "add_border"
    /\ ~BorderFits
    /\ fn_call.frame.width = (fn_args.frame.width + 2 * fn_args.border_width) % U16

SpiralReturned == fn_call.fn = "index_to_spiral_coords"

\* C18: index_to_spiral_coords(0) = (0, 0), and no two indices of 0..N map
\* to the same cell.
Thm_C18_SpiralInjective ==
    SpiralReturned =>
        /\ (fn_args.n = 0 => fn_call.coords = <<0, 0>>)
        /\ \A m \in 0..MaxSpiral :
              m # fn_args.n => index_to_spiral_coords(m) # fn_call.coords

\* the last index of a ring of at least two layers: every leg of the ring and
\* every inner ring lies below it
Wit_C18_LastOfRing ==
    /\ SpiralReturned
    /\ fn_args.n = 24
    /\ fn_call.coords = <<2, -2>>

ManhattanDistance(a, b) == Abs(a[1] - b[1]) + Abs(a[2] - b[2])

\* max(|x|, |z|)
RingOf(c) == Max2(Abs(c[1]), Abs(c[2]))

SquareCells(L) == (-L..L) \X (-L..L)

\* C19: consecutive indices map to lattice neighbours (Manhattan distance
\* 1); the indices 0..(2L+1)^2-1 map onto exactly the cells with
\* max(|x|,|z|) <= L; ring L >= 1 is the indices (2L-1)^2..(2L+1)^2-1 and
\* starts at (L, -L+1).
Thm_C19_SpiralNeighboursAndRings ==
    SpiralReturned =>
        LET n == fn_args.n
            L == RingOf(fn_call.coords)
        IN  /\ n >= 1 =>
                  ManhattanDistance(fn_call.coords, index_to_spiral_coords(n - 1)) = 1
            /\ (L = 0) = (n = 0)
            /\ L >= 1 =>
                  /\ (2 * L - 1) * (2 * L - 1) <= n
                  /\ n <= (2 * L + 1) * (2 * L + 1) - 1
                  /\ (n = (2 * L - 1) * (2 * L - 1)) = (fn_call.coords = <<L, 1 - L>>)
            /\ n = (2 * L + 1) * (2 * L + 1) - 1 =>
                  {index_to_spiral_coords(m) : m \in 0..n} = SquareCells(L)

\* the first index of the third ring, reached from the last cell of the second
Wit_C19_RingStart ==
    /\ SpiralReturned
    /\ fn_args.n = 25
    /\ fn_call.coords = <<3, -2>>
    /\ index_to_spiral_coords(24) = <<2, -2>>

(***************************************************************************)
(* Properties of a project run or tested (SpecProject).                    *)
(***************************************************************************)
ProjectReturned == pj_pc = "returned"

FrameCount == Len(pj_frames)

FilesOfKind(kind) == {k \in DOMAIN pj_files : k[1] = kind}

NamesOfKind(kind) == {k[2] : k \in FilesOfKind(kind)}

OutputKinds == {"frames", "grid", "tp"}

\* the request of the configuration is past the collection
RangePastCollection ==
    /\ pj_mode = "run"
    /\ invalid_frame_range(resolve_index_start(pj_config.frame_start),
                           resolve_index_end(pj_config.frame_end, FrameCount),
                           FrameCount)

\* C13: for every frame collection, the empty one included, and every
\* frame_start / frame_end whose resolved indices have min(start, end) >
\* frame_count, write_project_n_from_config returns InvalidFrameRange: it
\* does not panic and writes no frame record, grid record or command.
Cex_C13_RangeErrorReported ==
    RangePastCollection =>
        /\ \A kind \in OutputKinds : FilesOfKind(kind) = {}
        /\ ProjectReturned =>
             /\ pj_result.status = "Err"
             /\ pj_result.err.kind = "InvalidFrameRange"

\* C14: running or testing a project on an empty frame collection returns
\* an error, whatever the configuration; it does not panic on an index
\* outside the collection.
Cex_C14_EmptyCollectionReported ==
    (FrameCount = 0 /\ ProjectReturned) => pj_result.status = "Err"

\* the 1-based inclusive frames the configuration asks for
FirstFrameAsked == IF pj_config.frame_start = None THEN 1 ELSE pj_config.frame_start

LastFrameAsked == IF pj_config.frame_end = None THEN FrameCount ELSE pj_config.frame_end

\* C15: with 1 <= s <= e <= frame_count (an absent frame_start being the
\* first frame, an absent frame_end the last) and make_frames on, a
\* successful run has written the frame records s.json .. e.json and no other.
Cex_C15_InclusiveFrameRange ==
    (/\ pj_mode = "run"
     /\ pj_config.make_frames
     /\ 1 <= FirstFrameAsked
     /\ FirstFrameAsked <= LastFrameAsked
     /\ LastFrameAsked <= FrameCount
     /\ ProjectReturned
     /\ pj_result.status = "Ok") =>
        NamesOfKind("frames") = FirstFrameAsked..LastFrameAsked

GridWritten == ProjectFile("grid", "all_frames") \in DOMAIN pj_files

FrameNamespace == create_df_namespace(pj_config.namespace, pj_config.frame_dfs_dir).value

\* C16: the grid record of a range [start, end) lists, in increasing index
\* order, one reference per index i of the range, the namespace prefix
\* followed by i + 1: the references of the frame records start+1 .. end.
Cex_C16_GridReferencesRange ==
    GridWritten =>
        pj_files[ProjectFile("grid", "all_frames")].grid_cell_args =
            [k \in 1..(pj_index_range[2] - pj_index_range[1]) |->
                <<FrameNamespace, pj_index_range[1] + k>>]

\* C17: write_tp_functions writes one command per index i of [start, end)
\* and none for an index outside; the command of i is (i+1).mcfunction with
\* x = sx*2*W + W/2, z = sz*2*H + H/2, (sx, sz) = index_to_spiral_coords(i),
\* and the configured height.
Cex_C17_OneCommandPerIndex ==
    /\ \A name \in NamesOfKind("tp") :
         /\ name - 1 \in pj_index_range[1]..(pj_index_range[2] - 1)
         /\ LET c == index_to_spiral_coords(name - 1)
            IN  pj_files[ProjectFile("tp", name)] =
                  <<"tp @a",
                    c[1] * 2 * pj_frame_dim[1] + pj_frame_dim[1] \div 2,
                    pj_config.tp_height,
                    c[2] * 2 * pj_frame_dim[2] + pj_frame_dim[2] \div 2,
                    "180 90">>
    /\ (ProjectReturned /\ pj_result.status = "Ok" /\ pj_config.make_tp) =>
         NamesOfKind("tp") = {i + 1 : i \in pj_index_range[1]..(pj_index_range[2] - 1)}

\* C20: for each output kind, a file of that kind exists only once the
\* directory of that kind has been created, and no file of a kind whose
\* directory creation failed is written.
Thm_C20_DirectoryBeforeFiles ==
    \A kind \in OutputKinds :
        /\ FilesOfKind(kind) # {} => kind \in pj_dirs
        /\ kind \in pj_dir_failed => FilesOfKind(kind) = {} /\ kind \notin pj_dirs

\* frame records and the grid record were written, then the directory of
\* the commands could not be created
Wit_C20_TpDirFailed ==
    /\ FilesOfKind("frames") # {}
    /\ GridWritten
    /\ pj_dirs = {"frames", "grid"}
    /\ pj_dir_failed = {"tp"}
    /\ ProjectReturned
    /\ pj_result.status = "Err"

(***************************************************************************)
(* Further properties of write_json_frames_parallel (Spec).                *)
(***************************************************************************)
\* the units whose payload could not be compressed
CompressionFailedUnits == {i \in Indices : unit_err[i].stage = "compress_zlib"}

\* C21: when compress_zlib fails inside a unit, the error collected for the
\* unit, and the error the batch reports if it is that unit's, is a
\* FileCompression error, not a FileWrite error, and no record is written
\* for the frame.
Cex_C21_CompressionErrorKind ==
    /\ \A i \in CompressionFailedUnits :
         /\ unit_err[i].kind = "FileCompression"
         /\ JsonFile(i + 1) \notin DOMAIN files
    /\ (pc = "returned" /\ result.err.stage = "compress_zlib") =>
         result.err.kind = "FileCompression"

(***************************************************************************)
(* Properties of the single-sided transform of main.rs (SpecMain).         *)
(***************************************************************************)
MainBinarySdfReturned == fn_call.fn = "main_binary_sdf"

TwoPassReturned == fn_call.fn = "chebyshev_sdf_two_pass"

AllAboveThreshold(f) ==
    /\ Len(f.data) > 0
    /\ \A i \in 1..Len(f.data) : f.data[i] > Threshold

\* C22: for a non-empty frame whose every pixel is above 127 (the maximum
\* distance is 0) the single-sided binary_sdf returns a frame of the same
\* width and height whose every byte is 255; it does not divide by the zero
\* maximum.
Thm_C22_AllAboveIs255 ==
    (MainBinarySdfReturned /\ AllAboveThreshold(fn_args.frame)) =>
        /\ fn_call.status = "ok"
        /\ fn_call.frame.width = fn_args.frame.width
        /\ fn_call.frame.height = fn_args.frame.height
        /\ Len(fn_call.frame.data) = Len(fn_args.frame.data)
        /\ \A i \in 1..Len(fn_call.frame.data) : fn_call.frame.data[i] = 255

\* the largest frame, all white, in the build with overflow checks
Wit_C22_AllAboveLargest ==
    /\ MainBinarySdfReturned
    /\ AllAboveThreshold(fn_args.frame)
    /\ fn_args.frame.width = MaxW
    /\ fn_args.frame.height = MaxH
    /\ fn_args.build = "debug"
    /\ fn_call.frame.data[MaxW * MaxH] = 255

\* C23: for every frame with at least one above-threshold pixel,
\* chebyshev_sdf_two_pass returns at each pixel the Chebyshev distance to
\* the nearest above-threshold pixel; relaxing from a neighbour that holds
\* the sentinel never fails and never lowers a cost, so a pixel that is no
\* seed never ends with distance 0.
Cex_C23_TwoPassExact ==
    (TwoPassReturned /\ AbovePixels(fn_args.frame) # {}) =>
        /\ fn_call.status = "ok"
        /\ \A i \in 1..Len(fn_args.frame.data) :
             /\ fn_call.field[i] = ExactDistance(fn_args.frame, AbovePixels(fn_args.frame), i)
             /\ (fn_call.field[i] = 0) = (i \in AbovePixels(fn_args.frame))

\* the bordered, transformed frame of index i
GradFrameOf(i) ==
    (CHOOSE p \in BorderedSdfTable :
        p[1] = <<call_frames[i + 1], call_border_width, call_border_color>>)[2].frame

WrittenIndices == {i \in Indices : JsonFile(i + 1) \in DOMAIN files}

\* C26: in every frame record a batch writes, x_size and z_size are the
\* width and height of the bordered, transformed frame whose bytes are the
\* record's payload, so the uncompressed payload has x_size * z_size bytes;
\* for every index processed and every border width.
Thm_C26_RecordSizesMatchPayload ==
    \A i \in WrittenIndices :
        LET rec == files[JsonFile(i + 1)].argument.argument
        IN  /\ rec.deflated_frame_data = base64_encode(compress_zlib(GradFrameOf(i).data))
            /\ rec.x_size = GradFrameOf(i).width
            /\ rec.z_size = GradFrameOf(i).height
            /\ Len(GradFrameOf(i).data) = rec.x_size * rec.z_size

\* the record of the last of MaxFrames frames, bordered, is on disk
Wit_C26_LastIndexBordered ==
    /\ MaxFrames - 1 \in WrittenIndices
    /\ call_border_width = MaxBorder
    /\ files[JsonFile(MaxFrames)].argument.argument.x_size = 2 + 2 * MaxBorder
    /\ files[JsonFile(MaxFrames)].argument.argument.z_size = 1 + 2 * MaxBorder

(***************************************************************************)
(* Further properties of a project run or tested (SpecProject).            *)
(***************************************************************************)
\* the 1-based number of the frame a test asks for
TestFrameAsked == IF pj_config.test_frame = None THEN 1 ELSE pj_config.test_frame

GridReferences ==
    {pj_files[ProjectFile("grid", "all_frames")].grid_cell_args[k] :
        k \in 1..Len(pj_files[ProjectFile("grid", "all_frames")].grid_cell_args)}

\* C24: a successful single-frame test for test frame t with make_frames
\* and make_grid on has written the frame record t.json and an
\* all_frames.json whose reference list contains the reference to frame t.
Cex_C24_TestGridReferencesFrame ==
    (/\ pj_mode = "test"
     /\ pj_config.make_frames
     /\ pj_config.make_grid
     /\ ProjectReturned
     /\ pj_result.status = "Ok") =>
        /\ ProjectFile("frames", TestFrameAsked) \in DOMAIN pj_files
        /\ GridWritten
        /\ <<FrameNamespace, TestFrameAsked>> \in GridReferences

\* C25: for a non-empty collection and a test_frame greater than
\* frame_count, test_project_n_from_config returns
\* InvalidTestFrame(test_frame, frame_count) and writes no image, frame
\* record, grid record or command; for a test_frame within 1..=frame_count
\* it does not return that error.
Thm_C25_InvalidTestFrame ==
    (pj_mode = "test" /\ FrameCount > 0) =>
        /\ pj_config.test_frame > FrameCount =>
             /\ pj_files = NoFiles
             /\ pj_dirs = {}
             /\ ProjectReturned =>
                  /\ pj_result.status = "Err"
                  /\ pj_result.err = CliError("InvalidTestFrame", pj_config.test_frame,
                                              FrameCount)
        /\ (TestFrameAsked <= FrameCount /\ ProjectReturned) =>
             pj_result.err.kind # "InvalidTestFrame"

\* the test of the frame just past a collection of MaxFrames frames has
\* returned
Wit_C25_OnePastTheEnd ==
    /\ pj_mode = "test"
    /\ FrameCount = MaxFrames
    /\ pj_config.test_frame = MaxFrames + 1
    /\ pj_config.make_frames
    /\ ProjectReturned
    /\ pj_result.err.kind = "InvalidTestFrame"

(***************************************************************************)
(* Properties of write_projects_from_config (SpecRun).                     *)
(***************************************************************************)
\* the files of the directories of project m (0-based)
RunOutputs(m) ==
    IF run_pc = "project" /\ m = run_n THEN pj_files ELSE run_files[m + 1]

HasKind(fs, kind) == \E k \in DOMAIN fs : k[1] = kind

\* the step writes a file of this kind for the project being written
AddsKind(kind) ==
    \E k \in DOMAIN pj_files' : k[1] = kind /\ k \notin DOMAIN pj_files

\* every unit of the frame batch of the project being written has its record
FrameBatchComplete ==
    \A i \in zip_units(pj_index_range, pj_frames) :
        ProjectFile("frames", frame_file_name(i)) \in DOMAIN pj_files

\* the frame batch of the project being written was asked for and failed
FrameBatchFailed ==
    /\ pj_config.make_frames
    /\ pj_result.status = "Err"
    /\ ~HasKind(pj_files, "grid") /\ ~HasKind(pj_files, "tp")
    /\ "grid" \notin pj_dirs \cup pj_dir_failed

\* C28: the projects are processed strictly in configuration order and,
\* within a project, frame records come before the grid record and the grid
\* record before the placement commands; the first step that reports an
\* error ends the whole run: after a failed frame batch of project n no grid
\* record and no placement command of project n is written, and no output of
\* any project after n.
Thm_C28_OrderAndFirstError ==
    [][/\ run_pc' = "project" => pj_config' = run_projects[run_n' + 1]
       /\ run_n' # run_n => (run_n' = run_n + 1 /\ pj_result.status = "Ok")
       /\ \A m \in 0..(Len(run_projects) - 1) :
            /\ RunOutputs(m)' # RunOutputs(m) =>
                 (m = run_n /\ run_pc = "project" /\ pj_result.status = "none")
            /\ m > run_n' => RunOutputs(m)' = NoFiles
       /\ AddsKind("frames") => (~HasKind(pj_files, "grid") /\ ~HasKind(pj_files, "tp"))
       /\ AddsKind("grid") =>
            (~HasKind(pj_files, "tp") /\ (pj_config.make_frames => FrameBatchComplete))
       /\ AddsKind("tp") =>
            /\ pj_config.make_grid => HasKind(pj_files, "grid")
            /\ pj_config.make_frames => FrameBatchComplete
       /\ (pj_config'.make_frames /\ ~FrameBatchComplete') =>
            (~HasKind(pj_files', "grid") /\ ~HasKind(pj_files', "tp"))
       /\ pj_result.status \in {"Err", "panic"} =>
            /\ run_pc' = "returned" /\ run_result' = pj_result
            /\ \A m \in 0..(Len(run_projects) - 1) : RunOutputs(m)' = RunOutputs(m)
      ]_vars

\* the run has returned the error of the frame batch of project 1, which
\* wrote a record and failed on another, after project 0 wrote its frame
\* records, its grid record and its commands
Wit_C28_SecondBatchFailed ==
    /\ run_pc = "returned" /\ run_result.status = "Err"
    /\ Len(run_projects) = 2 /\ run_n = 1
    /\ \A kind \in {"frames", "grid", "tp"} : HasKind(RunOutputs(0), kind)
    /\ FrameBatchFailed
    /\ HasKind(RunOutputs(1), "frames")
    /\ ~FrameBatchComplete

(***************************************************************************)
(* write_json_frames_parallel against the sequential write_json_frames     *)
(* (Spec).                                                                 *)
(***************************************************************************)
NoUnitFailed == \A i \in Indices : unit_res[i] # "Err"

SequentialRun ==
    write_json_frames(call_frames, call_frame_dim, call_index_range, call_border_width,
                      call_border_color)

\* C29: when no per-frame unit fails, the frame records and the content of
\* each record after write_json_frames_parallel are, under every
\* interleaving of the workers, those the sequential write_json_frames
\* produces for the same frames, range and border parameters, and both
\* return Ok.
Thm_C29_ParallelEqualsSequential ==
    (pc = "returned" /\ dir_exists /\ NoUnitFailed) =>
        /\ result.status = "Ok"
        /\ SequentialRun.status = "Ok"
        /\ files = SequentialRun.files

\* the batch has returned Ok after its workers wrote the record of every
\* frame with a border, the range ending one past the collection
Wit_C29_AllRecords ==
    /\ pc = "returned" /\ result.status = "Ok"
    /\ call_index_range = <<0, MaxFrames>>
    /\ Len(call_frames) = MaxFrames - 1
    /\ call_border_width = MaxBorder
    /\ Cardinality(DOMAIN files) = MaxFrames - 1
    /\ \A i \in 0..(MaxFrames - 2) : attempts[i] = 1

(***************************************************************************)
(* Commands and grid references against the frame collection (SpecProject).*)
(***************************************************************************)
\* the frame numbers the grid record refers to
GridFrameNumbers ==
    IF GridWritten
    THEN {pj_files[ProjectFile("grid", "all_frames")].grid_cell_args[k][2] :
            k \in 1..Len(pj_files[ProjectFile("grid", "all_frames")].grid_cell_args)}
    ELSE {}

\* C30: for every frame range write_project_n_from_config accepts, every
\* placement command and every grid reference it writes names a frame of
\* the collection (a number of 1 .. frame_count) and, when make_frames is
\* on, a frame whose record the same run wrote; also when frame_end is
\* larger than frame_count.
Cex_C30_NamedFramesExist ==
    (pj_mode = "run" /\ pj_revision = "functions") =>
        \A number \in NamesOfKind("tp") \cup GridFrameNumbers :
            /\ number \in 1..FrameCount
            /\ pj_config.make_frames => number \in NamesOfKind("frames")

====
